---- MODULE Spec2Model ----
(***************************************************************************)
(* Bank of Zion: a two-asset, oracle-priced liquidity pool.                *)
(*                                                                         *)
(* The module models the instruction processor (processor.rs), the pool    *)
(* record and the pricing engine (state.rs) and the cross-program calls    *)
(* (cpi.rs).  Amounts are machine integers of the program; the fixed-point *)
(* arithmetic of the pricing engine (PreciseNumber: a 256-bit integer      *)
(* scaled by 10^12) is modelled on multi-limb naturals because its         *)
(* intermediate values do not fit the model checker's integers.            *)
(***************************************************************************)
EXTENDS Integers, Sequences, FiniteSets, TLC

(***************************************************************************)
(* Multi-limb naturals: little-endian sequences of limbs in 0..BASE-1      *)
(* without leading zero limbs; <<>> is zero.                               *)
(***************************************************************************)
BASE == 1000

RECURSIVE BigNorm(_)
\* s without its leading zero limbs
BigNorm(s) ==
    IF s = <<>> THEN <<>>
    ELSE IF s[Len(s)] = 0 THEN BigNorm(SubSeq(s, 1, Len(s) - 1))
    ELSE s

RECURSIVE BigFromNat(_)
BigFromNat(n) ==
    IF n = 0 THEN <<>> ELSE <<n % BASE>> \o BigFromNat(n \div BASE)

RECURSIVE BigToNat(_)
BigToNat(s) ==
    IF s = <<>> THEN 0 ELSE s[1] + BASE * BigToNat(Tail(s))

Limb(s, i) == IF i >= 1 /\ i <= Len(s) THEN s[i] ELSE 0

RECURSIVE BigCmpFrom(_, _, _)
BigCmpFrom(a, b, i) ==
    IF i = 0 THEN 0
    ELSE IF a[i] < b[i] THEN -1
    ELSE IF a[i] > b[i] THEN 1
    ELSE BigCmpFrom(a, b, i - 1)

\* a <= b
BigLE(a, b) ==
    IF Len(a) < Len(b) THEN TRUE
    ELSE IF Len(a) > Len(b) THEN FALSE
    ELSE BigCmpFrom(a, b, Len(a)) <= 0

RECURSIVE BigAddFrom(_, _, _, _, _)
\* limb i of the sum is t mod BASE, the carry into limb i + 1 is t div BASE,
\* for t the sum of the two limbs and the carry
BigAddFrom(a, b, i, carry, acc) ==
    IF i > Len(a) /\ i > Len(b)
    THEN IF carry = 0 THEN acc ELSE Append(acc, carry)
    ELSE LET t == Limb(a, i) + Limb(b, i) + carry
         IN  BigAddFrom(a, b, i + 1, t \div BASE, Append(acc, t % BASE))

BigAdd(a, b) ==
    IF a = <<>> THEN b ELSE IF b = <<>> THEN a ELSE BigAddFrom(a, b, 1, 0, <<>>)

RECURSIVE BigSubFrom(_, _, _, _, _)
BigSubFrom(a, b, i, borrow, acc) ==
    IF i > Len(a) THEN acc
    ELSE LET t == a[i] - Limb(b, i) - borrow
         IN  IF t < 0 THEN BigSubFrom(a, b, i + 1, 1, Append(acc, t + BASE))
             ELSE BigSubFrom(a, b, i + 1, 0, Append(acc, t))

\* a - b for a >= b
BigSub(a, b) == BigNorm(BigSubFrom(a, b, 1, 0, <<>>))

RECURSIVE BigMulSmallFrom(_, _, _, _, _)
BigMulSmallFrom(a, d, i, carry, acc) ==
    IF i > Len(a)
    THEN IF carry = 0 THEN acc ELSE Append(acc, carry)
    ELSE LET t == a[i] * d + carry
         IN  BigMulSmallFrom(a, d, i + 1, t \div BASE, Append(acc, t % BASE))

\* a * d for a limb d in 0..BASE-1
BigMulSmall(a, d) == IF d = 0 THEN <<>> ELSE BigMulSmallFrom(a, d, 1, 0, <<>>)

\* a * BASE
BigShift(a) == IF a = <<>> THEN <<>> ELSE <<0>> \o a

RECURSIVE BigMulFrom(_, _, _, _)
BigMulFrom(a, b, i, acc) ==
    IF i = 0 \/ Len(acc) < 0 THEN acc
    ELSE IF b[i] = 0 THEN BigMulFrom(a, b, i - 1, BigShift(acc))
    ELSE BigMulFrom(a, b, i - 1, BigAdd(BigShift(acc), BigMulSmall(a, b[i])))

\* a * b, schoolbook, most significant limb of b first
BigMul(a, b) == IF a = <<>> THEN <<>> ELSE BigMulFrom(a, b, Len(b), <<>>)

RECURSIVE BigFixDigit(_, _, _)
\* the largest q' <= q with b * q' <= r
BigFixDigit(r, b, q) ==
    IF BigLE(BigMulSmall(b, q), r) THEN q ELSE BigFixDigit(r, b, q - 1)

\* the quotient limb floor(r / b) for r < b * BASE, b # 0
BigDigit(r, b) ==
    IF Len(b) = 1
    THEN (Limb(r, 2) * BASE + Limb(r, 1)) \div b[1]
    \* from the estimate by the leading limbs, at most BASE - 1
    ELSE LET estimate ==
                 ((Limb(r, Len(b) + 1) * BASE + Limb(r, Len(b))) * BASE
                      + Limb(r, Len(b) - 1))
                     \div (b[Len(b)] * BASE + b[Len(b) - 1])
         IN  BigFixDigit(r, b, IF estimate > BASE - 1 THEN BASE - 1 ELSE estimate)

RECURSIVE BigDivFrom(_, _, _, _, _)
BigDivLimb(a, b, i, quo, r, q) ==
    BigDivFrom(a, b, i - 1, BigNorm(<<q>> \o quo), BigSub(r, BigMulSmall(b, q)))

\* long division from limb i of a downwards; quo and rem are the quotient
\* and the remainder of the limbs above i; the result is <<quotient, remainder>>
BigDivFrom(a, b, i, quo, rem) ==
    IF i = 0 \/ Len(quo) + Len(rem) < 0 THEN <<quo, rem>>
    ELSE BigDivLimb(a, b, i, quo, BigNorm(<<a[i]>> \o rem),
                    BigDigit(BigNorm(<<a[i]>> \o rem), b))

\* <<floor(a / b), a mod b>> for b # 0
BigDivMod(a, b) ==
    IF Len(a) < Len(b) THEN <<<<>>, a>>
    \* b is a power of BASE: the division is a shift of Len(b) - 1 limbs
    ELSE IF b # <<>> /\ b[Len(b)] = 1 /\ \A i \in 1..(Len(b) - 1) : b[i] = 0
    THEN <<SubSeq(a, Len(b), Len(a)), BigNorm(SubSeq(a, 1, Len(b) - 1))>>
    \* the Len(b) - 1 leading limbs of a are below b: they are the first remainder
    ELSE BigDivFrom(a, b, Len(a) - Len(b) + 1, <<>>,
                    BigNorm(SubSeq(a, Len(a) - Len(b) + 2, Len(a))))

\* floor(a / b) for b # 0
BigDiv(a, b) == BigDivMod(a, b)[1]

RECURSIVE BigPow2(_)
BigPow2(n) ==
    IF n = 0 THEN <<1>>
    ELSE IF n % 2 = 0 THEN LET h == BigPow2(n \div 2) IN BigMul(h, h)
    ELSE BigMulSmall(BigPow2(n - 1), 2)

(***************************************************************************)
(* Option values: None, or Some(v) holding v.  The values of the pricing   *)
(* engine are Options: an operation on None is None, as the `?` and the    *)
(* `expect` of the code end the computation at the first None.             *)
(***************************************************************************)
None == <<>>
Some(v) == <<v>>
Unwrap(o) == o[1]

(***************************************************************************)
(* Machine integers.                                                       *)
(***************************************************************************)
U64_MOD  == BigPow2(64)
U128_MAX == BigSub(BigPow2(128), <<1>>)
U256_MAX == BigSub(BigPow2(256), <<1>>)

\* the value r if it fits the width, None otherwise
Checked(r, max) == IF BigLE(r, max) THEN Some(r) ELSE None

U256_checked_add(a, b) == Checked(BigAdd(a, b), U256_MAX)

U256_checked_mul(a, b) == Checked(BigMul(a, b), U256_MAX)

\* `x as u64`: the low 64 bits of x
AsU64(x) == BigDivMod(x, U64_MOD)[2]

(***************************************************************************)
(* PreciseNumber: an unsigned 256-bit value scaled by ONE = 10^12.  A      *)
(* number is held as its raw scaled value.                                 *)
(***************************************************************************)
\* 10^12 and 10^12 / 2 in limbs
ONE == <<0, 0, 0, 0, 1>>
ROUNDING_CORRECTION == <<0, 0, 0, 500>>

\* PreciseNumber::new(value), value a u64
PN_new(value) == U256_checked_mul(value, ONE)

\* s / d where the sum s is there (U256::checked_div: None for d = 0)
QuotientOf(s, d) ==
    IF s = None \/ d = <<>> THEN None ELSE Some(BigDiv(s[1], d))

\* PreciseNumber::to_imprecise: rounds to nearest, None (U256::as_u128 panics)
\* above u128
PN_to_imprecise(x) ==
    IF x = None THEN None
    ELSE LET rounded == QuotientOf(U256_checked_add(x[1], ROUNDING_CORRECTION), ONE)
         IN  IF rounded = None THEN None
             ELSE Checked(rounded[1], U128_MAX)

\* PreciseNumber::floor
PN_floor(x) ==
    IF x = None THEN None ELSE U256_checked_mul(BigDiv(x[1], ONE), ONE)

\* PreciseNumber::checked_mul on the raw values a and b, m their product
MulRounded(a, b, m) ==
    IF m # None
    THEN QuotientOf(U256_checked_add(m[1], ROUNDING_CORRECTION), ONE)
    ELSE IF BigLE(b, a)
         THEN U256_checked_mul(BigDiv(a, ONE), b)
         ELSE U256_checked_mul(BigDiv(b, ONE), a)

PN_checked_mul(x, y) ==
    IF x = None \/ y = None THEN None
    ELSE MulRounded(x[1], y[1], U256_checked_mul(x[1], y[1]))

\* PreciseNumber::checked_div on the raw values a and b # 0, m = a * ONE
DivRounded(a, b, m) ==
    IF m # None
    THEN QuotientOf(U256_checked_add(m[1], ROUNDING_CORRECTION), b)
    ELSE IF U256_checked_add(a, ROUNDING_CORRECTION) = None THEN None
    ELSE U256_checked_mul(BigDiv(U256_checked_add(a, ROUNDING_CORRECTION)[1], b), ONE)

PN_checked_div(x, y) ==
    IF x = None \/ y = None THEN None
    ELSE IF y[1] = <<>> THEN None
    ELSE DivRounded(x[1], y[1], U256_checked_mul(x[1], ONE))

\* PreciseNumber::checked_add
PN_checked_add(x, y) ==
    IF x = None \/ y = None THEN None ELSE U256_checked_add(x[1], y[1])

\* PreciseNumber::less_than_or_equal
PN_less_than_or_equal(x, y) == BigLE(x[1], y[1])

(***************************************************************************)
(* Pricing engine (state.rs).  Arguments are u64 values as multi-limb      *)
(* naturals; a result of None is a panic of an `expect`.                   *)
(***************************************************************************)

\* Token::calculate_market_value
calculate_market_value(price, supply) == PN_checked_mul(price, PN_new(supply))

\* Token::get_market_value
get_market_value(amount, market_price) ==
    calculate_market_value(PN_new(market_price), amount)

\* the market price with no premium applied
get_protocol_price_raw(price, premium) == PN_new(price)

\* Token::get_protocol_price
get_protocol_price(price, premium) == PN_checked_mul(PN_new(price), premium)

\* the value as it is given, zero included
AsGiven(value) == value

\* the value, or one in the place of a value that is zero
\* (state.rs 221-232, 277-279)
AtLeastOne(value) ==
    IF value = None \/ PN_new(<<>>) = None \/ PN_new(<<1>>) = None THEN None
    ELSE IF PN_less_than_or_equal(value, PN_new(<<>>)) THEN PN_new(<<1>>) ELSE value

\* the premium with the two sides exchanged
get_price_premium_exchanged(vault_a_value, vault_b_value) ==
    PN_checked_div(AtLeastOne(vault_a_value), AtLeastOne(vault_b_value))

\* SwapState::get_price_premium
get_price_premium(vault_a_value, vault_b_value) ==
    PN_checked_div(AtLeastOne(vault_b_value), AtLeastOne(vault_a_value))

\* the u64 a pricing function returns
ReturnU64(imprecise) == IF imprecise = None THEN None ELSE Some(AsU64(imprecise[1]))

\* the share of the pool's supply a deposit is worth (state.rs 258-288): the
\* supply times the value of the deposit over the value of the protocol
swap_tokens_of(supply, deposit, vault_a_value, vault_b_value, fee_vault_a_value, fee_vault_b_value) ==
    PN_checked_mul(
        supply,
        PN_checked_div(
            PN_checked_mul(deposit, get_price_premium(vault_a_value, vault_b_value)),
            \* the value of the vaults and of the fee vaults (state.rs 262-275)
            AtLeastOne(PN_checked_add(
                           PN_checked_add(PN_checked_add(vault_a_value, vault_b_value),
                                          fee_vault_a_value),
                           fee_vault_b_value))))

\* SwapState::calculate_swap_tokens
calculate_swap_tokens(tokens_deposit, vault_a_supply, token_a_market_price, fee_vault_a_supply, vault_b_supply, token_b_market_price, fee_vault_b_supply, swap_supply) ==
    ReturnU64(PN_to_imprecise(
        swap_tokens_of(PN_new(swap_supply), PN_new(tokens_deposit),
                       get_market_value(vault_a_supply, token_a_market_price),
                       get_market_value(vault_b_supply, token_b_market_price),
                       get_market_value(fee_vault_a_supply, token_a_market_price),
                       get_market_value(fee_vault_b_supply, token_b_market_price))))

\* SwapState::calculate_tokens_to_swap
calculate_tokens_to_swap(source_supply, source_market_price, destination_market_price, destination_supply, token_amount) ==
    ReturnU64(PN_to_imprecise(PN_floor(
        PN_checked_div(
            PN_checked_mul(
                get_protocol_price(
                    source_market_price,
                    get_price_premium(
                        get_market_value(source_supply, source_market_price),
                        get_market_value(destination_supply, destination_market_price))),
                PN_new(token_amount)),
            PN_new(destination_market_price)))))

(***************************************************************************)
(* The accounts of the deployment.  Keys are named after their role; the   *)
(* attributes the ledger program keeps for an account (its mint, its       *)
(* owner) are fixed, balances are state.                                   *)
(***************************************************************************)
\* bounds of the model
MaxAmount      == 1    \* largest amount an instruction carries
InitialBalance == 1    \* asset tokens each wallet starts with
MaxOps         == 3    \* successful invocations in a history
MaxSupply      == 3    \* largest supply or amount a pricing function is given
MaxPrice       == 2    \* largest price a pricing function is given
MaxKey         == 2    \* Pubkeys a field of an encoded record is drawn from

Users == {"admin", "mallory"}

\* lib.rs declare_id!, spl_token::id(), system_program::id(), the rent sysvar
PROGRAM_ID     == "bank_of_zion"
SPL_TOKEN_ID   == "spl_token"
SYSTEM_PROGRAM == "system_program"
RENT_SYSVAR    == "rent"

PREFIX           == "swap_state"
AUTHORITY_PREFIX == "swap_authority"

\* Pubkey::create_program_address(&[prefix, &[bump]], &crate::id()) for the
\* declared program id: None where the hash is a point of the curve.
create_program_address(prefix, bump) ==
    IF prefix = PREFIX /\ bump = 251 THEN Some("swap_state_pda")
    ELSE IF prefix = AUTHORITY_PREFIX /\ bump = 251 THEN Some("authority251")
    ELSE IF prefix = AUTHORITY_PREFIX /\ bump = 250 THEN Some("authority250")
    ELSE None

\* Pubkey::find_program_address(&[PREFIX], &crate::id()): the first bump
\* from 255 downwards that gives an address
find_program_address_key == "swap_state_pda"

AuthorityKeys == {"authority250", "authority251"}

Mints   == {"swap_mint", "mint_a", "mint_b"}
Vaults  == {"vault_a", "vault_b", "fee_vault_a", "fee_vault_b"}
TokenAccounts ==
    Vaults \cup {"admin_a", "admin_b", "admin_lp", "mallory_a", "mallory_b", "mallory_lp"}

\* the address the deployer made mint authority of the three mints and owner
\* of the four vaults before Initialize; the token program never changes it
VARIABLE pool_authority

\* spl_token::state::Account.mint
TokenMint(k) ==
    IF k \in {"vault_a", "fee_vault_a", "admin_a", "mallory_a"} THEN "mint_a"
    ELSE IF k \in {"vault_b", "fee_vault_b", "admin_b", "mallory_b"} THEN "mint_b"
    ELSE "swap_mint"

\* spl_token::state::Account.owner
TokenOwner(k) ==
    IF k \in Vaults THEN pool_authority
    ELSE IF k \in {"admin_a", "admin_b", "admin_lp"} THEN "admin"
    ELSE "mallory"

\* spl_token::state::Mint.mint_authority
MintAuthority(m) == Some(pool_authority)

\* the price a price feed account reports (PriceFeed::get_price_unchecked)
OraclePrice(o) ==
    IF o = "oracle_a" THEN 1 ELSE IF o = "oracle_b" THEN 2 ELSE 3

\* the wallets a user passes for asset A and asset B
WalletA(u)  == IF u = "admin" THEN "admin_a"  ELSE "mallory_a"
WalletB(u)  == IF u = "admin" THEN "admin_b"  ELSE "mallory_b"

\* Rent::minimum_balance(space) of the rent sysvar
minimum_balance(space) == (128 + space) * 6960

SwapState_LEN == 371

(***************************************************************************)
(* State.                                                                  *)
(***************************************************************************)
VARIABLES
    swap_state_data,  \* data of the pool record account: None while it holds
                      \* no data, Some(record) once packed
    lamports,         \* lamport balance of the accounts that hold lamports
    amount,           \* spl_token Account.amount of every token account
    supply,           \* spl_token Mint.supply of every mint
    ops,              \* number of invocations that have succeeded
    last,             \* the last invocation: instruction, accounts, outcome
    pricing,          \* a call of a pricing function on its own: the function,
                      \* its arguments and what it returned
    codec             \* a value on its way through pack and unpack: the value,
                      \* its bytes and what the bytes unpack to

vars == <<pool_authority, swap_state_data, lamports, amount, supply, ops, last, pricing, codec>>

\* what the processor and the programs it calls can change
Ledger == [data |-> swap_state_data, lamports |-> lamports,
           amount |-> amount, supply |-> supply]

(***************************************************************************)
(* Steps of an invocation.  A step is a cross-program call, a pricing      *)
(* computation, a direct write to an account the program owns, the return  *)
(* of an error, or a panic.                                                *)
(***************************************************************************)
NoSeeds == <<>>

Call(program, instr, src, dst, authority, amt, seeds) ==
    [kind |-> "call", program |-> program, instr |-> instr, src |-> src,
     dst |-> dst, authority |-> authority, amount |-> amt, seeds |-> seeds,
     data |-> None]

\* a pricing computation and the amount it gives
Compute(what, value) ==
    [kind |-> "compute", program |-> PROGRAM_ID, instr |-> what, src |-> "",
     dst |-> "", authority |-> "", amount |-> value, seeds |-> NoSeeds, data |-> None]

\* the return of an error
Error(tag) ==
    [kind |-> "error", program |-> PROGRAM_ID, instr |-> tag, src |-> "",
     dst |-> "", authority |-> "", amount |-> 0, seeds |-> NoSeeds, data |-> None]

Panic(what) ==
    [kind |-> "panic", program |-> PROGRAM_ID, instr |-> what, src |-> "",
     dst |-> "", authority |-> "", amount |-> 0, seeds |-> NoSeeds, data |-> None]

Write(what, dst, value, data) ==
    [kind |-> "write", program |-> PROGRAM_ID, instr |-> what, src |-> "",
     dst |-> dst, authority |-> "", amount |-> value, seeds |-> NoSeeds,
     data |-> data]

\* cpi.rs
token_transfer(source, destination, authority, amt) ==
    Call(SPL_TOKEN_ID, "transfer", source, destination, authority, amt, NoSeeds)

token_transfer_signed(source, destination, authority, amt, signer_seeds) ==
    Call(SPL_TOKEN_ID, "transfer", source, destination, authority, amt, signer_seeds)

token_mint_to(mint, destination, authority, amt, signer_seeds) ==
    Call(SPL_TOKEN_ID, "mint_to", mint, destination, authority, amt, signer_seeds)

token_burn(wallet, mint, authority, amt, signer_seeds) ==
    Call(SPL_TOKEN_ID, "burn", wallet, mint, authority, amt, signer_seeds)

(***************************************************************************)
(* The programs the processor calls.  ApplyCall gives the ledger after a   *)
(* call, or the error the callee returns.  The signers of a call are the   *)
(* signers of the transaction and the address derived from the call's      *)
(* signer seeds (invoke_signed).                                           *)
(***************************************************************************)
CallSigners(c, signers) ==
    IF c.seeds = NoSeeds THEN signers
    ELSE signers \cup {Unwrap(create_program_address(c.seeds[1], c.seeds[2]))}

\* only the pool record ever holds data
CallError(L, c, signers) ==
    IF c.seeds # NoSeeds /\ create_program_address(c.seeds[1], c.seeds[2]) = None
    THEN "InvalidSeeds"
    ELSE IF c.authority \notin CallSigners(c, signers)
    THEN "MissingRequiredSignature"
    ELSE IF c.program = SPL_TOKEN_ID /\ c.instr = "transfer"
    THEN IF c.src \notin TokenAccounts \/ c.dst \notin TokenAccounts
         THEN "InvalidAccountData"
         ELSE IF L.amount[c.src] < c.amount THEN "InsufficientFunds"
         ELSE IF TokenMint(c.src) # TokenMint(c.dst) THEN "MintMismatch"
         ELSE IF TokenOwner(c.src) # c.authority THEN "OwnerMismatch"
         ELSE "Ok"
    ELSE IF c.program = SPL_TOKEN_ID /\ c.instr = "mint_to"
    THEN IF c.src \notin Mints \/ c.dst \notin TokenAccounts
         THEN "InvalidAccountData"
         ELSE IF TokenMint(c.dst) # c.src THEN "MintMismatch"
         ELSE IF MintAuthority(c.src) # Some(c.authority) THEN "OwnerMismatch"
         ELSE "Ok"
    ELSE IF c.program = SPL_TOKEN_ID /\ c.instr = "burn"
    THEN IF c.src \notin TokenAccounts \/ c.dst \notin Mints
         THEN "InvalidAccountData"
         ELSE IF TokenMint(c.src) # c.dst THEN "MintMismatch"
         ELSE IF L.amount[c.src] < c.amount THEN "InsufficientFunds"
         ELSE IF TokenOwner(c.src) # c.authority THEN "OwnerMismatch"
         ELSE "Ok"
    ELSE IF c.instr = "create_account"
    THEN IF c.dst \notin CallSigners(c, signers) THEN "MissingRequiredSignature"
         ELSE IF L.lamports[c.dst] > 0 \/ (c.dst = find_program_address_key /\ L.data # None)
         THEN "AccountAlreadyInUse"
         ELSE IF L.lamports[c.src] < c.amount THEN "InsufficientFunds"
         ELSE "Ok"
    ELSE IF c.instr = "system_transfer"
    THEN IF L.lamports[c.src] < c.amount THEN "InsufficientFunds" ELSE "Ok"
    ELSE IF c.dst \notin CallSigners(c, signers) THEN "MissingRequiredSignature"
    ELSE IF c.instr = "allocate" /\ (c.dst = find_program_address_key /\ L.data # None) THEN "AccountAlreadyInUse"
    ELSE "Ok"

ApplyCall(L, c) ==
    IF c.program = SPL_TOKEN_ID /\ c.instr = "transfer"
    THEN [L EXCEPT !.amount =
            [[@ EXCEPT ![c.src] = @ - c.amount] EXCEPT ![c.dst] = @ + c.amount]]
    ELSE IF c.program = SPL_TOKEN_ID /\ c.instr = "mint_to"
    THEN [L EXCEPT !.amount[c.dst] = @ + c.amount, !.supply[c.src] = @ + c.amount]
    ELSE IF c.program = SPL_TOKEN_ID /\ c.instr = "burn"
    THEN [L EXCEPT !.amount[c.src] = @ - c.amount, !.supply[c.dst] = @ - c.amount]
    ELSE IF c.instr \in {"create_account", "system_transfer"}
    THEN [L EXCEPT !.lamports =
            [[@ EXCEPT ![c.src] = @ - c.amount] EXCEPT ![c.dst] = @ + c.amount]]
    ELSE L

\* a direct write of the program to an account it holds
ApplyWrite(L, s) ==
    IF s.instr = "pack" THEN [L EXCEPT !.data = s.data]
    ELSE [L EXCEPT !.lamports[s.dst] = s.amount]

RECURSIVE Run(_, _, _, _, _)
\* runs steps[i..] on ledger L; issued are the steps taken so far.  The
\* result is the outcome, the steps taken (a failing call included) and the
\* ledger the steps leave.
Run(L, steps, i, signers, issued) ==
    IF i > Len(steps) THEN [result |-> "Ok", steps |-> issued, ledger |-> L]
    ELSE LET s  == steps[i]
             so == Append(issued, s)
         IN  IF s.kind = "panic"
             THEN [result |-> "Panic", steps |-> so, ledger |-> L]
             ELSE IF s.kind = "error"
             THEN [result |-> s.instr, steps |-> so, ledger |-> L]
             ELSE IF s.kind = "compute"
             THEN Run(L, steps, i + 1, signers, so)
             ELSE IF s.kind = "write"
             THEN Run(ApplyWrite(L, s), steps, i + 1, signers, so)
             ELSE IF CallError(L, s, signers) # "Ok"
             THEN [result |-> CallError(L, s, signers), steps |-> so, ledger |-> L]
             ELSE Run(ApplyCall(L, s), steps, i + 1, signers, so)

(***************************************************************************)
(* Validation helpers (processor.rs, state.rs).  A check gives "Ok" or the *)
(* tag of the error it returns.                                            *)
(***************************************************************************)
\* Processor::unpack_token_account
unpack_token_account(k) ==
    IF k \notin TokenAccounts \cup Mints THEN "IncorrectTokenProgramId"
    ELSE IF k \notin TokenAccounts THEN "ExpectedTokenAccount"
    ELSE "Ok"

\* Processor::unpack_mint
unpack_mint(k) ==
    IF k \notin TokenAccounts \cup Mints THEN "IncorrectTokenProgramId"
    ELSE IF k \notin Mints THEN "ExpectedMint"
    ELSE "Ok"

\* SwapState::validate_swap_state_key
validate_swap_state_key(swap_state_key) ==
    IF swap_state_key # find_program_address_key THEN "InvalidSwapState" ELSE "Ok"

\* the check with the authority never compared
validate_swap_state_authority_unchecked(st, swap_authority) == "Ok"

\* SwapState::validate_swap_state_authority
validate_swap_state_authority(st, swap_authority) ==
    IF st.swap_authority # swap_authority THEN "InvalidSwapAuthority" ELSE "Ok"

\* SwapState::validate_swap_mint
validate_swap_mint(st, swap_mint) ==
    IF st.swap_mint # swap_mint THEN "InvalidSwapMint" ELSE "Ok"

\* Token::validate_accounts
Token_validate_accounts(token, mint, vault, fee_vault, oracle) ==
    IF token.mint # mint THEN "InvalidMint"
    ELSE IF token.vault # vault THEN "InvalidVault"
    ELSE IF token.fee_vault # fee_vault THEN "InvalidFeeVault"
    ELSE IF token.oracle # oracle THEN "InvalidOracle"
    ELSE "Ok"

\* SwapState::validate_accounts
validate_accounts(st, swap_authority, swap_mint, token_a_mint, token_a_vault, token_a_fee_vault, token_a_oracle, token_b_mint, token_b_vault, token_b_fee_vault, token_b_oracle) ==
    IF validate_swap_state_authority(st, swap_authority) # "Ok"
    THEN validate_swap_state_authority(st, swap_authority)
    ELSE IF validate_swap_mint(st, swap_mint) # "Ok"
    THEN validate_swap_mint(st, swap_mint)
    ELSE IF Token_validate_accounts(st.token_a, token_a_mint, token_a_vault,
                                    token_a_fee_vault, token_a_oracle) # "Ok"
    THEN Token_validate_accounts(st.token_a, token_a_mint, token_a_vault,
                                 token_a_fee_vault, token_a_oracle)
    ELSE Token_validate_accounts(st.token_b, token_b_mint, token_b_vault,
                                 token_b_fee_vault, token_b_oracle)

\* Processor::validate_mint_and_token_accounts
validate_mint_and_token_accounts(token_account_owners, mint_authority, expected_authority) ==
    IF mint_authority # expected_authority THEN "InvalidSwapAuthority"
    ELSE IF \E i \in 1..Len(token_account_owners) :
                token_account_owners[i] # expected_authority
    THEN "InvalidOwner"
    ELSE "Ok"

\* Processor::validate_swap_authority_key; "Panic" where the bump gives no
\* address and the `expect` fails
validate_swap_authority_key(swap_authority, swap_authority_bump) ==
    LET authority == create_program_address(AUTHORITY_PREFIX, swap_authority_bump)
    IN  IF authority = None THEN "Panic"
        ELSE IF swap_authority = Unwrap(authority) THEN "Ok"
        ELSE "InvalidSwapAuthority"

\* the check with the data of the account never looked at
assert_uninitialized_unchecked(data) == "Ok"

\* Processor::assert_uninitialized
assert_uninitialized(data) ==
    IF data # None THEN "AccountAlreadyInitialized" ELSE "Ok"

\* the signer seeds of the authority as each call site builds them
AuthoritySeeds(bump) == <<AUTHORITY_PREFIX, bump>>

\* cpi.rs create_pda_account
create_pda_account(L, payer, space, new_pda_account, new_pda_signer_seeds) ==
    LET rent_due == IF minimum_balance(space) > 1 THEN minimum_balance(space) ELSE 1
        held     == L.lamports[new_pda_account]
        required_lamports == IF rent_due > held THEN rent_due - held ELSE 0
    IN  IF held > 0
        THEN (IF required_lamports > 0
              THEN <<Call(SYSTEM_PROGRAM, "system_transfer", payer, new_pda_account,
                          payer, required_lamports, NoSeeds)>>
              ELSE <<>>)
             \o <<Call(SYSTEM_PROGRAM, "allocate", "", new_pda_account,
                       new_pda_account, space, new_pda_signer_seeds),
                  Call(SYSTEM_PROGRAM, "assign", "", new_pda_account,
                       new_pda_account, 0, new_pda_signer_seeds)>>
        ELSE <<Call(SYSTEM_PROGRAM, "create_account", payer, new_pda_account,
                    payer, rent_due, new_pda_signer_seeds)>>

(***************************************************************************)
(* Instruction handlers (processor.rs).  A handler gives the steps the     *)
(* invocation takes, in the order of the code, from the accounts it is     *)
(* given (acc), the signers of the transaction and the ledger it reads.    *)
(***************************************************************************)
\* a validation outcome as the steps it ends the invocation with
\* a failed check that does not end the invocation
Reject_ignored(v) == <<>>

Reject(v) == IF v = "Panic" THEN <<Panic("expect")>> ELSE <<Error(v)>>

\* a pricing result as a step: the amount, or the panic of the `expect`
Priced(what, o) ==
    IF o = None THEN Panic(what) ELSE Compute(what, BigToNat(Unwrap(o)))

AmountOf(o) == IF o = None THEN 0 ELSE BigToNat(Unwrap(o))

\* the deposit counted at a price of 1
market_value_tokens_unpriced(deposit, price) == Some(BigFromNat(deposit))

\* get_market_value(..).to_imprecise().expect(..) as u64  (processor.rs 376, 392)
market_value_tokens(deposit, price) ==
    ReturnU64(PN_to_imprecise(get_market_value(BigFromNat(deposit), BigFromNat(price))))

\* SwapState::unpack_from_slice on the data of the record account: reading
\* 371 bytes of an account without data panics
unpack_from_slice(data) == IF data = None THEN "Panic" ELSE "Ok"

\* load_price_feed_from_account_info(..).unwrap()
load_price_feed(k) ==
    IF k \in {"oracle_a", "oracle_b", "oracle_x"} THEN "Ok" ELSE "Panic"

admin_deposit_validation(L, acc, signers) ==
    IF acc.token_program_info # SPL_TOKEN_ID THEN "InvalidTokenProgramKey"
    ELSE IF validate_swap_state_key(acc.swap_state_info) # "Ok" THEN "InvalidSwapState"
    ELSE IF unpack_from_slice(L.data) # "Ok" THEN "Panic"
    ELSE LET swap_state == Unwrap(L.data) IN
         IF acc.admin_info \notin signers THEN "InvalidSigner"
    ELSE IF validate_swap_state_authority(swap_state, acc.swap_authority_info) # "Ok"
         THEN "InvalidSwapAuthority"
    ELSE IF acc.token_a_mint_info # swap_state.token_a.mint THEN "InvalidMint"
    ELSE IF acc.token_b_mint_info # swap_state.token_b.mint THEN "InvalidMint"
    ELSE IF acc.swap_mint_info # swap_state.swap_mint THEN "InvalidMint"
    ELSE IF acc.token_a_oracle_info # swap_state.token_a.oracle THEN "InvalidOracle"
    ELSE IF acc.token_b_oracle_info # swap_state.token_b.oracle THEN "InvalidOracle"
    ELSE IF acc.token_a_vault_info # swap_state.token_a.vault THEN "InvalidVault"
    ELSE IF acc.token_b_vault_info # swap_state.token_b.vault THEN "InvalidVault"
    ELSE IF load_price_feed(acc.token_a_oracle_info) # "Ok" THEN "Panic"
    ELSE IF load_price_feed(acc.token_b_oracle_info) # "Ok" THEN "Panic"
    ELSE "Ok"

\* the liquidity tokens a deposit of one asset adds to the amount minted:
\* none unless the deposit is positive (processor.rs 368, 384, 499, 520)
SwapTokensOf(deposit, tokens) == IF deposit > 0 THEN AmountOf(tokens) ELSE 0

\* process_admin_deposit once the checks have passed (processor.rs 366-409);
\* a_tokens and b_tokens are the market values of the two deposits
admin_deposit_steps(acc, swap_state, token_a_deposit, token_b_deposit, a_tokens, b_tokens) ==
        (IF token_a_deposit > 0
         THEN <<token_transfer(acc.token_a_admin_wallet, acc.token_a_vault_info,
                               acc.admin_info, token_a_deposit),
                Priced("get_market_value", a_tokens)>>
         ELSE <<>>)
        \o
        (IF token_b_deposit > 0
         THEN <<token_transfer(acc.token_b_admin_wallet, acc.token_b_vault_info,
                               acc.admin_info, token_b_deposit),
                Priced("get_market_value", b_tokens)>>
         ELSE <<>>)
        \o
        <<token_mint_to(acc.swap_mint_info, acc.admin_swap_wallet,
                        acc.swap_authority_info,
                        SwapTokensOf(token_a_deposit, a_tokens)
                            + SwapTokensOf(token_b_deposit, b_tokens),
                        AuthoritySeeds(swap_state.swap_authority_bump))>>

\* the outcome of the checks as steps, or the steps that follow them
Checked_then(v, steps) == IF v # "Ok" THEN Reject(v) ELSE steps

\* Processor::process_admin_deposit
process_admin_deposit(L, acc, signers, token_a_deposit, token_b_deposit) ==
    Checked_then(
        admin_deposit_validation(L, acc, signers),
        admin_deposit_steps(
            acc, Unwrap(L.data), token_a_deposit, token_b_deposit,
            market_value_tokens(token_a_deposit, OraclePrice(acc.token_a_oracle_info)),
            market_value_tokens(token_b_deposit, OraclePrice(acc.token_b_oracle_info))))

\* the validation shared by process_deposit and process_withdraw
deposit_validation(L, acc, signers) ==
    IF acc.token_program_info # SPL_TOKEN_ID THEN "InvalidTokenProgramKey"
    ELSE IF acc.user \notin signers THEN "InvalidSigner"
    ELSE IF validate_swap_state_key(acc.swap_state_info) # "Ok" THEN "InvalidSwapState"
    ELSE IF unpack_from_slice(L.data) # "Ok" THEN "Panic"
    ELSE LET swap_state == Unwrap(L.data)
             va == validate_accounts(swap_state, acc.swap_authority_info,
                       acc.swap_mint_info,
                       swap_state.token_a.mint, acc.token_a_vault_info,
                       acc.token_a_fee_vault_info, acc.token_a_oracle_info,
                       swap_state.token_b.mint, acc.token_b_vault_info,
                       acc.token_b_fee_vault_info, acc.token_b_oracle_info)
         IN
         IF va # "Ok" THEN va
    ELSE IF unpack_token_account(acc.token_a_vault_info) # "Ok"
         THEN unpack_token_account(acc.token_a_vault_info)
    ELSE IF unpack_token_account(acc.token_a_fee_vault_info) # "Ok"
         THEN unpack_token_account(acc.token_a_fee_vault_info)
    ELSE IF unpack_token_account(acc.token_b_vault_info) # "Ok"
         THEN unpack_token_account(acc.token_b_vault_info)
    ELSE IF unpack_mint(acc.swap_mint_info) # "Ok"
         THEN unpack_mint(acc.swap_mint_info)
    ELSE "Ok"

\* the account process_deposit and process_withdraw read the balance of
\* fee vault B from (processor.rs 478, 623)
token_b_fee_vault_source(acc) == acc.token_b_vault_info

\* calculate_swap_tokens for the deposit side "a" or "b", on the balances
\* the handler has read
swap_tokens_for(L, acc, side, tokens) ==
    LET token_a_vault     == L.amount[acc.token_a_vault_info]
        token_a_fee_vault == L.amount[acc.token_a_fee_vault_info]
        token_b_vault     == L.amount[acc.token_b_vault_info]
        token_b_fee_vault == L.amount[token_b_fee_vault_source(acc)]
        swap_mint         == L.supply[acc.swap_mint_info]
        token_a_price     == OraclePrice(acc.token_a_oracle_info)
        token_b_price     == OraclePrice(acc.token_b_oracle_info)
    IN  IF side = "a"
        THEN calculate_swap_tokens(
                 BigFromNat(tokens),
                 BigFromNat(token_a_vault), BigFromNat(token_a_price),
                 BigFromNat(token_a_fee_vault),
                 BigFromNat(token_b_vault), BigFromNat(token_b_price),
                 BigFromNat(token_b_fee_vault),
                 BigFromNat(swap_mint))
        ELSE calculate_swap_tokens(
                 BigFromNat(tokens),
                 BigFromNat(token_b_vault), BigFromNat(token_b_price),
                 BigFromNat(token_b_fee_vault),
                 BigFromNat(token_a_vault), BigFromNat(token_a_price),
                 BigFromNat(token_a_fee_vault),
                 BigFromNat(swap_mint))

\* load_price_feed_from_account_info(..).unwrap() of both feeds
load_price_feeds(acc) ==
    IF load_price_feed(acc.token_a_oracle_info) # "Ok" THEN "Panic"
    ELSE load_price_feed(acc.token_b_oracle_info)

\* a deposit that issues the transfer of a side whatever its amount
deposit_steps_always_transfer(acc, swap_state, token_a_deposit, token_b_deposit, a_tokens, b_tokens) ==
        <<token_transfer(acc.token_a_user_info, acc.token_a_vault_info,
                         acc.user, token_a_deposit),
          token_transfer(acc.token_b_user_info, acc.token_b_vault_info,
                         acc.user, token_b_deposit),
          token_mint_to(acc.swap_mint_info, acc.swap_token_user_info,
                        acc.swap_authority_info,
                        SwapTokensOf(token_a_deposit, a_tokens)
                            + SwapTokensOf(token_b_deposit, b_tokens),
                        AuthoritySeeds(swap_state.swap_authority_bump))>>

\* process_deposit once the checks have passed (processor.rs 497-553);
\* a_tokens and b_tokens are what calculate_swap_tokens gives the two deposits
deposit_steps(acc, swap_state, token_a_deposit, token_b_deposit, a_tokens, b_tokens) ==
        (IF token_a_deposit > 0
         THEN <<token_transfer(acc.token_a_user_info, acc.token_a_vault_info,
                               acc.user, token_a_deposit),
                Priced("calculate_swap_tokens", a_tokens)>>
         ELSE <<>>)
        \o
        (IF token_b_deposit > 0
         THEN <<token_transfer(acc.token_b_user_info, acc.token_b_vault_info,
                               acc.user, token_b_deposit),
                Priced("calculate_swap_tokens", b_tokens)>>
         ELSE <<>>)
        \o
        <<token_mint_to(acc.swap_mint_info, acc.swap_token_user_info,
                        acc.swap_authority_info,
                        SwapTokensOf(token_a_deposit, a_tokens)
                            + SwapTokensOf(token_b_deposit, b_tokens),
                        AuthoritySeeds(swap_state.swap_authority_bump))>>

\* Processor::process_deposit
process_deposit(L, acc, signers, token_a_deposit, token_b_deposit) ==
    Checked_then(
        \* the checks, in the order of the code
        IF deposit_validation(L, acc, signers) # "Ok"
        THEN deposit_validation(L, acc, signers)
        ELSE load_price_feeds(acc),
        deposit_steps(acc, Unwrap(L.data), token_a_deposit, token_b_deposit,
                      swap_tokens_for(L, acc, "a", token_a_deposit),
                      swap_tokens_for(L, acc, "b", token_b_deposit)))

\* the liquidity tokens a withdrawal costs (processor.rs 634-667)
withdraw_cost(L, acc, side, tokens) ==
    IF tokens > 0 THEN swap_tokens_for(L, acc, side, tokens) ELSE Some(<<>>)

\* the comparison with a cost equal to the balance let through
withdraw_allowed_at_balance(cost, balance) == cost <= balance

\* the comparison that lets a withdrawal proceed (processor.rs 669)
withdraw_allowed(cost, balance) == cost < balance

\* the two arms with the error returned after the calls have been made
withdraw_outcome_after_calls(allowed, calls) ==
    IF allowed THEN calls ELSE calls \o <<Error("InsufficientSwapTokens")>>

\* the two arms of the comparison (processor.rs 669-708)
withdraw_outcome(allowed, calls) ==
    IF allowed THEN calls ELSE <<Error("InsufficientSwapTokens")>>

\* the signer seeds process_withdraw and process_swap give the vault debits
\* (processor.rs 678, 690, 855)
VaultDebitSeeds(swap_state) == <<AUTHORITY_PREFIX, swap_state.bump>>

\* the checks of process_withdraw, in the order of the code
withdraw_checks(L, acc, signers) ==
    IF deposit_validation(L, acc, signers) # "Ok"
    THEN deposit_validation(L, acc, signers)
    ELSE IF unpack_token_account(acc.swap_token_user_info) # "Ok"
    THEN unpack_token_account(acc.swap_token_user_info)
    ELSE load_price_feeds(acc)

\* a withdrawal that burns the liquidity tokens before it pays
withdraw_steps_burn_first(acc, swap_state, swap_token_user, token_a_withdraw, token_b_withdraw, a_tokens, b_tokens) ==
    <<token_burn(acc.swap_token_user_info, acc.swap_mint_info, acc.user,
                 AmountOf(a_tokens) + AmountOf(b_tokens),
                 AuthoritySeeds(swap_state.swap_authority_bump)),
      token_transfer_signed(acc.token_a_vault_info, acc.token_a_user_info,
                            acc.swap_authority_info, token_a_withdraw,
                            VaultDebitSeeds(swap_state)),
      token_transfer_signed(acc.token_b_vault_info, acc.token_b_user_info,
                            acc.swap_authority_info, token_b_withdraw,
                            VaultDebitSeeds(swap_state))>>

\* process_withdraw once the checks have passed (processor.rs 632-711);
\* a_tokens and b_tokens are the costs of the two withdrawals, swap_token_user
\* the balance of the user's liquidity token account
withdraw_steps(acc, swap_state, swap_token_user, token_a_withdraw, token_b_withdraw, a_tokens, b_tokens) ==
        IF a_tokens = None \/ b_tokens = None
        THEN <<Panic("calculate_swap_tokens")>>
        ELSE
        <<Compute("calculate_swap_tokens", AmountOf(a_tokens)),
          Compute("calculate_swap_tokens", AmountOf(b_tokens))>>
        \o
        withdraw_outcome(
            withdraw_allowed(AmountOf(a_tokens) + AmountOf(b_tokens), swap_token_user),
            (IF token_a_withdraw > 0
             THEN <<token_transfer_signed(acc.token_a_vault_info, acc.token_a_user_info,
                        acc.swap_authority_info, token_a_withdraw,
                        VaultDebitSeeds(swap_state))>>
             ELSE <<>>)
            \o
            (IF token_b_withdraw > 0
             THEN <<token_transfer_signed(acc.token_b_vault_info, acc.token_b_user_info,
                        acc.swap_authority_info, token_b_withdraw,
                        VaultDebitSeeds(swap_state))>>
             ELSE <<>>)
            \o
            <<token_burn(acc.swap_token_user_info, acc.swap_mint_info, acc.user,
                         AmountOf(a_tokens) + AmountOf(b_tokens),
                         AuthoritySeeds(swap_state.swap_authority_bump))>>)

\* Processor::process_withdraw
process_withdraw(L, acc, signers, token_a_withdraw, token_b_withdraw) ==
    Checked_then(
        withdraw_checks(L, acc, signers),
        withdraw_steps(acc, Unwrap(L.data), L.amount[acc.swap_token_user_info],
                       token_a_withdraw, token_b_withdraw,
                       withdraw_cost(L, acc, "a", token_a_withdraw),
                       withdraw_cost(L, acc, "b", token_b_withdraw)))

\* the check with the two price feed accounts never compared
swap_oracle_unchecked(swap_state, source_oracle, destination_oracle) == "Ok"

\* the check process_swap makes of the two price feed accounts (processor.rs 775)
swap_oracle_check(swap_state, source_oracle, destination_oracle) ==
    IF destination_oracle = source_oracle THEN "InvalidOracle" ELSE "Ok"

swap_validation(L, acc, signers) ==
    IF acc.token_program_info # SPL_TOKEN_ID THEN "InvalidTokenProgramKey"
    ELSE IF acc.user \notin signers THEN "InvalidSigner"
    ELSE IF validate_swap_state_key(acc.swap_state_info) # "Ok" THEN "InvalidSwapState"
    ELSE IF unpack_from_slice(L.data) # "Ok" THEN "Panic"
    ELSE LET swap_state == Unwrap(L.data) IN
         IF validate_swap_state_authority(swap_state, acc.swap_authority_info) # "Ok"
         THEN "InvalidSwapAuthority"
    ELSE IF unpack_token_account(acc.source_vault_info) # "Ok"
         THEN unpack_token_account(acc.source_vault_info)
    ELSE IF unpack_token_account(acc.destination_vault_info) # "Ok"
         THEN unpack_token_account(acc.destination_vault_info)
    ELSE IF L.amount[acc.destination_vault_info] = 0 THEN "InvalidSupply"
    ELSE IF load_price_feed(acc.source_oracle_info) # "Ok" THEN "Panic"
    ELSE IF load_price_feed(acc.destination_oracle_info) # "Ok" THEN "Panic"
    ELSE IF swap_oracle_check(swap_state, acc.source_oracle_info,
                              acc.destination_oracle_info) # "Ok"
         THEN swap_oracle_check(swap_state, acc.source_oracle_info,
                                acc.destination_oracle_info)
    ELSE IF acc.source_vault_info = swap_state.token_a.vault
         THEN IF acc.source_vault_info # swap_state.token_a.vault THEN "InvalidVault"
              ELSE IF acc.destination_vault_info # swap_state.token_b.vault
                   THEN "InvalidVault"
              ELSE IF acc.source_fee_vault_info # swap_state.token_a.fee_vault
                   THEN "InvalidVault"
              ELSE IF acc.destination_fee_vault_info # swap_state.token_b.fee_vault
                   THEN "InvalidVault"
              ELSE "Ok"
         ELSE IF acc.destination_vault_info # swap_state.token_a.vault
                   THEN "InvalidVault"
              ELSE IF acc.source_vault_info # swap_state.token_b.vault
                   THEN "InvalidVault"
              ELSE IF acc.destination_fee_vault_info # swap_state.token_a.fee_vault
                   THEN "InvalidVault"
              ELSE IF acc.source_fee_vault_info # swap_state.token_b.fee_vault
                   THEN "InvalidVault"
              ELSE "Ok"

\* the pair (source_price, destination_price) process_swap takes from the two
\* feeds (processor.rs 801, 824)
swap_prices(swap_state, acc) ==
    IF acc.source_vault_info = swap_state.token_a.vault
    THEN <<OraclePrice(acc.source_oracle_info), OraclePrice(acc.destination_oracle_info)>>
    ELSE <<OraclePrice(acc.destination_oracle_info), OraclePrice(acc.source_oracle_info)>>

\* calculate_tokens_to_swap on the balances process_swap has read and the
\* pair of prices it took (processor.rs 806-832)
swap_destination_amount(L, acc, prices, amt) ==
    calculate_tokens_to_swap(
        BigFromNat(L.amount[acc.source_vault_info]),
        BigFromNat(prices[1]),
        BigFromNat(prices[2]),
        BigFromNat(L.amount[acc.destination_vault_info]),
        BigFromNat(amt))

\* a swap that counts itself in the swap_fee field of the record
swap_steps_recorded(acc, swap_state, amt, destination_amount) ==
    <<Write("pack", acc.swap_state_info, 0,
            Some([swap_state EXCEPT !.swap_fee = @ + 1]))>>

\* a swap that first moves the stored swap fee from the user's source wallet
\* into the fee vault of the source asset
swap_steps_with_fee(acc, swap_state, amt, destination_amount) ==
    <<token_transfer(acc.source_user_info, acc.source_fee_vault_info, acc.user,
                     swap_state.swap_fee),
      token_transfer(acc.source_user_info, acc.source_vault_info, acc.user, amt),
      token_transfer_signed(acc.destination_vault_info, acc.destination_user_info,
                            acc.swap_authority_info, AmountOf(destination_amount),
                            VaultDebitSeeds(swap_state))>>

\* process_swap once the checks have passed (processor.rs 806-858)
swap_steps(acc, swap_state, amt, destination_amount) ==
    <<Priced("calculate_tokens_to_swap", destination_amount),
      token_transfer(acc.source_user_info, acc.source_vault_info, acc.user, amt),
      token_transfer_signed(acc.destination_vault_info, acc.destination_user_info,
                            acc.swap_authority_info, AmountOf(destination_amount),
                            VaultDebitSeeds(swap_state))>>

\* Processor::process_swap
process_swap(L, acc, signers, amt) ==
    Checked_then(
        swap_validation(L, acc, signers),
        swap_steps(acc, Unwrap(L.data), amt,
                   swap_destination_amount(L, acc, swap_prices(Unwrap(L.data), acc), amt)))

close_pool_validation(L, acc, signers) ==
    IF validate_swap_state_key(acc.swap_state_info) # "Ok" THEN "InvalidSwapState"
    ELSE IF unpack_from_slice(L.data) # "Ok" THEN "Panic"
    ELSE LET swap_state == Unwrap(L.data) IN
         IF swap_state.admin # acc.admin_info THEN "MustBeAdmin"
    ELSE IF acc.admin_info \notin signers THEN "InvalidSigner"
    ELSE IF validate_swap_state_authority(swap_state, acc.swap_authority_info) # "Ok"
         THEN "InvalidSwapAuthority"
    ELSE "Ok"

\* the writes with the lamports of the record left where they are
close_pool_writes_credit_only(L, acc) ==
    <<Write("lamports", acc.admin_info,
            L.lamports[acc.admin_info] + L.lamports[acc.swap_state_info], None)>>

\* what process_close_pool writes once the checks pass (processor.rs 890-894)
close_pool_writes(L, acc) ==
    <<Write("lamports", acc.admin_info,
            L.lamports[acc.admin_info] + L.lamports[acc.swap_state_info], None),
      Write("lamports", acc.swap_state_info, 0, None)>>

\* Processor::process_close_pool
process_close_pool(L, acc, signers) ==
    Checked_then(close_pool_validation(L, acc, signers), close_pool_writes(L, acc))

\* the record of the payload packed as it was carried
SwapState_as_carried(acc, payload) == payload

\* the record process_initialize packs (processor.rs 258-279)
SwapState(acc, payload) ==
    [admin               |-> acc.admin_info,
     bump                |-> payload.bump,
     is_initialized      |-> TRUE,
     swap_authority      |-> payload.swap_authority,
     swap_authority_bump |-> payload.swap_authority_bump,
     swap_mint           |-> acc.swap_mint_info,
     token_a |-> [mint      |-> acc.token_a_mint_info,
                  vault     |-> acc.token_a_vault_info,
                  fee_vault |-> acc.token_a_fee_vault_info,
                  oracle    |-> acc.token_a_oracle_info],
     token_b |-> [mint      |-> acc.token_b_mint_info,
                  vault     |-> acc.token_b_vault_info,
                  fee_vault |-> acc.token_b_fee_vault_info,
                  oracle    |-> acc.token_b_oracle_info],
     program_fee         |-> payload.program_fee,
     swap_fee            |-> payload.swap_fee]

\* the checks of one asset in process_initialize (processor.rs 206-229)
initialize_token_validation(mint, vault, fee_vault, swap_authority) ==
    IF unpack_mint(mint) # "Ok" THEN unpack_mint(mint)
    ELSE IF MintAuthority(mint) = None THEN "InvalidAuthority"
    ELSE IF unpack_token_account(vault) # "Ok" THEN unpack_token_account(vault)
    ELSE IF unpack_token_account(fee_vault) # "Ok" THEN unpack_token_account(fee_vault)
    ELSE validate_mint_and_token_accounts(
             <<TokenOwner(vault), TokenOwner(fee_vault)>>,
             Unwrap(MintAuthority(mint)), swap_authority)

\* the check with the two mints never compared
identical_mints_unchecked(token_a_mint, token_b_mint) == "Ok"

\* the comparison of the two asset mints (processor.rs 232-234)
identical_mints_check(token_a_mint, token_b_mint) ==
    IF token_a_mint = token_b_mint THEN "IdenticalMints" ELSE "Ok"

initialize_validation(L, acc, signers, payload) ==
    IF acc.rent_info # RENT_SYSVAR THEN "InvalidArgument"
    ELSE IF acc.token_program_info # SPL_TOKEN_ID THEN "InvalidTokenProgramKey"
    ELSE IF acc.system_program_info # SYSTEM_PROGRAM THEN "InvalidSystemProgramKey"
    ELSE IF acc.admin_info \notin signers THEN "InvalidSigner"
    ELSE IF validate_swap_state_key(acc.swap_state_info) # "Ok" THEN "InvalidSwapState"
    ELSE IF assert_uninitialized(L.data) # "Ok" THEN assert_uninitialized(L.data)
    ELSE IF validate_swap_authority_key(acc.swap_authority_info,
                                        payload.swap_authority_bump) # "Ok"
         THEN validate_swap_authority_key(acc.swap_authority_info,
                                          payload.swap_authority_bump)
    ELSE IF unpack_mint(acc.swap_mint_info) # "Ok" THEN unpack_mint(acc.swap_mint_info)
    ELSE IF MintAuthority(acc.swap_mint_info) # Some(payload.swap_authority)
         THEN "InvalidAuthority"
    ELSE IF L.supply[acc.swap_mint_info] # 0 THEN "InvalidSupply"
    ELSE IF initialize_token_validation(acc.token_a_mint_info, acc.token_a_vault_info,
             acc.token_a_fee_vault_info, payload.swap_authority) # "Ok"
         THEN initialize_token_validation(acc.token_a_mint_info, acc.token_a_vault_info,
             acc.token_a_fee_vault_info, payload.swap_authority)
    ELSE IF initialize_token_validation(acc.token_b_mint_info, acc.token_b_vault_info,
             acc.token_b_fee_vault_info, payload.swap_authority) # "Ok"
         THEN initialize_token_validation(acc.token_b_mint_info, acc.token_b_vault_info,
             acc.token_b_fee_vault_info, payload.swap_authority)
    ELSE identical_mints_check(acc.token_a_mint_info, acc.token_b_mint_info)

\* Processor::process_initialize
process_initialize(L, acc, signers, payload) ==
    Checked_then(
        initialize_validation(L, acc, signers, payload),
        create_pda_account(L, acc.admin_info, SwapState_LEN, acc.swap_state_info,
                           <<PREFIX, payload.bump>>)
        \o
        create_pda_account(L, acc.admin_info, 0, acc.swap_authority_info,
                           AuthoritySeeds(payload.swap_authority_bump))
        \o
        <<Write("pack", acc.swap_state_info, 0, Some(SwapState(acc, payload)))>>)

(***************************************************************************)
(* Invocations.  The accounts of an invocation are the ones a client       *)
(* builds for the pool (instructions.rs), or those with one account or one *)
(* signature replaced.                                                     *)
(***************************************************************************)
OtherAuthority(k) == IF k = "authority251" THEN "authority250" ELSE "authority251"

\* the bump that derives an authority address
BumpOf(k) == IF k = "authority251" THEN 251 ELSE 250

InitializeAccounts(u) ==
    [admin_info |-> u, swap_authority_info |-> pool_authority,
     swap_mint_info |-> "swap_mint", swap_state_info |-> find_program_address_key,
     token_a_mint_info |-> "mint_a", token_a_vault_info |-> "vault_a",
     token_a_fee_vault_info |-> "fee_vault_a", token_a_oracle_info |-> "oracle_a",
     token_b_mint_info |-> "mint_b", token_b_vault_info |-> "vault_b",
     token_b_fee_vault_info |-> "fee_vault_b", token_b_oracle_info |-> "oracle_b",
     token_program_info |-> SPL_TOKEN_ID, rent_info |-> RENT_SYSVAR,
     system_program_info |-> SYSTEM_PROGRAM]

\* the SwapState an Initialize instruction carries: every field of the record
\* travels in the payload, those the handler does not read included
InitializePayload ==
    [admin |-> "admin", is_initialized |-> FALSE,
     swap_authority |-> pool_authority, bump |-> 251,
     swap_authority_bump |-> BumpOf(pool_authority),
     swap_mint |-> "swap_mint",
     token_a |-> [mint |-> "mint_a", vault |-> "vault_a",
                  fee_vault |-> "fee_vault_a", oracle |-> "oracle_a"],
     token_b |-> [mint |-> "mint_b", vault |-> "vault_b",
                  fee_vault |-> "fee_vault_b", oracle |-> "oracle_b"],
     program_fee |-> 0, swap_fee |-> 0]

InitializeInputs ==
    { [acc |-> InitializeAccounts("admin"), payload |-> InitializePayload,
       signers |-> {"admin"}] }
    \cup
    \* a payload whose record is marked initialized, names another admin and
    \* another liquidity mint, lists the two assets in the other order and
    \* asks for fees
    { [acc |-> InitializeAccounts("mallory"),
       payload |-> [InitializePayload EXCEPT
                        !.is_initialized = TRUE, !.swap_mint = "mint_b",
                        !.token_a = InitializePayload.token_b,
                        !.token_b = InitializePayload.token_a,
                        !.program_fee = 7, !.swap_fee = 9],
       signers |-> {"mallory"}] }
    \cup
    \* the authority account and bump of another derivation, the stored
    \* authority identity unchanged
    { [acc |-> [InitializeAccounts(u) EXCEPT
                    !.swap_authority_info = OtherAuthority(pool_authority)],
       payload |-> [InitializePayload EXCEPT
                    !.swap_authority_bump = BumpOf(OtherAuthority(pool_authority))],
       signers |-> {u}] : u \in Users }
    \cup
    { [acc |-> InitializeAccounts("mallory"), payload |-> InitializePayload,
       signers |-> {}],
      [acc |-> InitializeAccounts("mallory"),
       payload |-> [InitializePayload EXCEPT !.swap_authority_bump = 252],
       signers |-> {"mallory"}],
      [acc |-> InitializeAccounts("mallory"),
       payload |-> [InitializePayload EXCEPT !.bump = 250],
       signers |-> {"mallory"}],
      [acc |-> InitializeAccounts("mallory"),
       payload |-> [InitializePayload EXCEPT
                        !.swap_authority = OtherAuthority(pool_authority)],
       signers |-> {"mallory"}],
      [acc |-> [InitializeAccounts("mallory") EXCEPT !.token_b_mint_info = "mint_a",
                    !.token_b_vault_info = "vault_a",
                    !.token_b_fee_vault_info = "fee_vault_a"],
       payload |-> InitializePayload, signers |-> {"mallory"}],
      [acc |-> [InitializeAccounts("mallory") EXCEPT !.system_program_info = SPL_TOKEN_ID],
       payload |-> InitializePayload, signers |-> {"mallory"}],
      \* a liquidity mint that has a supply
      [acc |-> [InitializeAccounts("mallory") EXCEPT !.swap_mint_info = "mint_b"],
       payload |-> InitializePayload, signers |-> {"mallory"}],
      \* a fee vault that a user owns
      [acc |-> [InitializeAccounts("mallory") EXCEPT
                    !.token_b_fee_vault_info = "mallory_b"],
       payload |-> InitializePayload, signers |-> {"mallory"}] }

AdminDepositAccounts(u) ==
    [admin_info |-> u, swap_authority_info |-> pool_authority,
     swap_mint_info |-> "swap_mint", swap_state_info |-> find_program_address_key,
     admin_swap_wallet |-> (IF u = "admin" THEN "admin_lp" ELSE "mallory_lp"),
     token_a_mint_info |-> "mint_a", token_a_admin_wallet |-> WalletA(u),
     token_a_vault_info |-> "vault_a", token_a_oracle_info |-> "oracle_a",
     token_b_mint_info |-> "mint_b", token_b_admin_wallet |-> WalletB(u),
     token_b_vault_info |-> "vault_b", token_b_oracle_info |-> "oracle_b",
     token_program_info |-> SPL_TOKEN_ID]

\* the amounts an instruction carries: nothing, or the largest amount
Amounts == {0, MaxAmount}

AdminDepositInputs ==
    { [acc |-> AdminDepositAccounts(u), a |-> a, b |-> b, signers |-> {u}]
        : u \in Users, a \in Amounts, b \in Amounts }
    \cup
    { [acc |-> d, a |-> 1, b |-> 0, signers |-> {"mallory"}] : d \in
        { [AdminDepositAccounts("mallory") EXCEPT !.admin_info = "admin"],
          [AdminDepositAccounts("mallory") EXCEPT
               !.swap_authority_info = OtherAuthority(pool_authority)],
          [AdminDepositAccounts("mallory") EXCEPT !.token_a_oracle_info = "oracle_x"],
          [AdminDepositAccounts("mallory") EXCEPT !.token_a_vault_info = "mallory_b"],
          [AdminDepositAccounts("mallory") EXCEPT !.token_a_mint_info = "mint_b"],
          [AdminDepositAccounts("mallory") EXCEPT !.token_program_info = SYSTEM_PROGRAM] } }
    \cup
    \* two accounts passed at each other's position: the two vaults, the
    \* admin's two wallets
    { [acc |-> [AdminDepositAccounts("mallory") EXCEPT !.token_a_vault_info = "vault_b",
                                                       !.token_b_vault_info = "vault_a"],
       a |-> MaxAmount, b |-> 0, signers |-> {"mallory"}] }
    \cup
    { [acc |-> [AdminDepositAccounts("mallory") EXCEPT
                    !.token_a_admin_wallet = WalletB("mallory"),
                    !.token_b_admin_wallet = WalletA("mallory")],
       a |-> a, b |-> 0, signers |-> {"mallory"}] : a \in Amounts }

DepositAccounts(u) ==
    [user |-> u, swap_state_info |-> find_program_address_key,
     swap_authority_info |-> pool_authority, swap_mint_info |-> "swap_mint",
     swap_token_user_info |-> (IF u = "admin" THEN "admin_lp" ELSE "mallory_lp"),
     token_a_user_info |-> WalletA(u), token_a_vault_info |-> "vault_a",
     token_a_fee_vault_info |-> "fee_vault_a", token_a_oracle_info |-> "oracle_a",
     token_b_user_info |-> WalletB(u), token_b_vault_info |-> "vault_b",
     token_b_fee_vault_info |-> "fee_vault_b", token_b_oracle_info |-> "oracle_b",
     token_program_info |-> SPL_TOKEN_ID]

DepositDeviations ==
    { [DepositAccounts("mallory") EXCEPT !.token_a_oracle_info = "oracle_x"],
      [DepositAccounts("mallory") EXCEPT !.token_b_fee_vault_info = "fee_vault_a"],
      [DepositAccounts("mallory") EXCEPT !.swap_mint_info = "mint_a"],
      [DepositAccounts("mallory") EXCEPT
           !.swap_authority_info = OtherAuthority(pool_authority)] }

\* two accounts passed at each other's position: the two vaults, the user's
\* two wallets
DepositExchanges ==
    { [acc |-> [DepositAccounts("mallory") EXCEPT !.token_a_vault_info = "vault_b",
                                                  !.token_b_vault_info = "vault_a"],
       a |-> MaxAmount, b |-> 0, signers |-> {"mallory"}] }
    \cup
    { [acc |-> [DepositAccounts("mallory") EXCEPT
                    !.token_a_user_info = WalletB("mallory"),
                    !.token_b_user_info = WalletA("mallory")],
       a |-> a, b |-> 0, signers |-> {"mallory"}] : a \in Amounts }

DepositInputs ==
    { [acc |-> DepositAccounts(u), a |-> a, b |-> b, signers |-> {u}]
        : u \in Users, a \in Amounts, b \in Amounts }
    \cup
    { [acc |-> d, a |-> 1, b |-> 0, signers |-> {"mallory"}] : d \in DepositDeviations }
    \cup
    { [acc |-> DepositAccounts("mallory"), a |-> 1, b |-> 0, signers |-> {}] }
    \cup
    DepositExchanges

WithdrawInputs ==
    { [acc |-> DepositAccounts(u), a |-> a, b |-> b, signers |-> {u}]
        : u \in Users, a \in Amounts, b \in Amounts }
    \cup
    { [acc |-> d, a |-> 1, b |-> 0, signers |-> {"mallory"}] : d \in
        DepositDeviations \cup
        { [DepositAccounts("mallory") EXCEPT !.swap_token_user_info = "admin_lp"] } }
    \cup
    { [acc |-> DepositAccounts("mallory"), a |-> 1, b |-> 0, signers |-> {}] }
    \cup
    DepositExchanges
    \cup
    \* the fee vault of asset A passed as the wallet the user is paid into
    { [acc |-> [DepositAccounts("mallory") EXCEPT !.token_a_user_info = "fee_vault_a"],
       a |-> MaxAmount, b |-> 0, signers |-> {"mallory"}] }

\* side is the asset the user gives
SwapAccounts(u, side) ==
    [user |-> u, swap_state_info |-> find_program_address_key,
     swap_authority_info |-> pool_authority,
     source_user_info |-> IF side = "a" THEN WalletA(u) ELSE WalletB(u),
     source_vault_info |-> IF side = "a" THEN "vault_a" ELSE "vault_b",
     source_fee_vault_info |-> IF side = "a" THEN "fee_vault_a" ELSE "fee_vault_b",
     source_oracle_info |-> IF side = "a" THEN "oracle_a" ELSE "oracle_b",
     destination_user_info |-> IF side = "a" THEN WalletB(u) ELSE WalletA(u),
     destination_vault_info |-> IF side = "a" THEN "vault_b" ELSE "vault_a",
     destination_fee_vault_info |-> IF side = "a" THEN "fee_vault_b" ELSE "fee_vault_a",
     destination_oracle_info |-> IF side = "a" THEN "oracle_b" ELSE "oracle_a",
     token_program_info |-> SPL_TOKEN_ID]

SwapInputs ==
    { [acc |-> SwapAccounts(u, side), amount |-> 1, signers |-> {u}]
        : u \in Users, side \in {"a", "b"} }
    \cup
    { [acc |-> d, amount |-> 1, signers |-> {"mallory"}] : d \in
        UNION { { [SwapAccounts("mallory", side) EXCEPT !.source_oracle_info = "oracle_x"],
                  [SwapAccounts("mallory", side) EXCEPT
                       !.destination_oracle_info = "oracle_x"],
                  [SwapAccounts("mallory", side) EXCEPT
                       !.source_oracle_info =
                           SwapAccounts("mallory", side).destination_oracle_info],
                  [SwapAccounts("mallory", side) EXCEPT
                       !.destination_fee_vault_info = "mallory_a"],
                  [SwapAccounts("mallory", side) EXCEPT
                       !.source_vault_info = "fee_vault_a"] }
                : side \in {"a", "b"} } }
    \cup
    { [acc |-> SwapAccounts("mallory", "a"), amount |-> 1, signers |-> {}],
      [acc |-> [SwapAccounts("mallory", "a") EXCEPT
                    !.swap_authority_info = OtherAuthority(pool_authority)],
       amount |-> 1, signers |-> {"mallory"}],
      [acc |-> SwapAccounts("mallory", "a"), amount |-> 0, signers |-> {"mallory"}] }

ClosePoolAccounts(u) ==
    [admin_info |-> u, swap_state_info |-> find_program_address_key,
     swap_authority_info |-> pool_authority]

ClosePoolInputs ==
    { [acc |-> ClosePoolAccounts(u), signers |-> {u}] : u \in Users }
    \cup
    { [acc |-> ClosePoolAccounts(u), signers |-> {"mallory"} \ {u}] : u \in Users }
    \cup
    { [acc |-> [ClosePoolAccounts(u) EXCEPT
                    !.swap_authority_info = OtherAuthority(pool_authority)],
       signers |-> {u}] : u \in Users }

(***************************************************************************)
(* The state machine.  An invocation runs its steps on the ledger; the     *)
(* runtime keeps what it changed only if it returns Ok.  `last` keeps the  *)
(* invocation: the ledger it started from (pre) and the ledger as its      *)
(* steps left it when it returned (at_return).  The record of an           *)
(* invocation is dropped before the next one is made: what an invocation   *)
(* does depends on the ledger only.                                        *)
(***************************************************************************)
NoArgs == [a |-> 0, b |-> 0]

\* no invocation on record
NoInvocation ==
    [op |-> "None", acc |-> <<>>, args |-> NoArgs, signers |-> {},
     result |-> "Ok", steps |-> <<>>, pre |-> <<>>, at_return |-> <<>>]

\* the invocation has run as r
Return(op, in, args, r) ==
    /\ last = NoInvocation
    /\ r.result = "Ok" => ops < MaxOps
    /\ last' = [op |-> op, acc |-> in.acc, args |-> args, signers |-> in.signers,
                result |-> r.result, steps |-> r.steps,
                pre |-> Ledger, at_return |-> r.ledger]
    /\ IF r.result = "Ok"
       THEN /\ swap_state_data' = r.ledger.data
            /\ lamports' = r.ledger.lamports
            /\ amount' = r.ledger.amount
            /\ supply' = r.ledger.supply
            /\ ops' = ops + 1
       ELSE UNCHANGED <<swap_state_data, lamports, amount, supply, ops>>
    /\ UNCHANGED <<pool_authority, pricing, codec>>

Invoke(op, in, args, steps) ==
    Return(op, in, args, Run(Ledger, steps, 1, in.signers, <<>>))

Initialize ==
    \E in \in InitializeInputs :
        Invoke("Initialize", in, in.payload,
               process_initialize(Ledger, in.acc, in.signers, in.payload))

AdminDeposit ==
    \E in \in AdminDepositInputs :
        Invoke("AdminDeposit", in, [a |-> in.a, b |-> in.b],
               process_admin_deposit(Ledger, in.acc, in.signers, in.a, in.b))

Deposit ==
    \E in \in DepositInputs :
        Invoke("Deposit", in, [a |-> in.a, b |-> in.b],
               process_deposit(Ledger, in.acc, in.signers, in.a, in.b))

Withdraw ==
    \E in \in WithdrawInputs :
        Invoke("Withdraw", in, [a |-> in.a, b |-> in.b],
               process_withdraw(Ledger, in.acc, in.signers, in.a, in.b))

Swap ==
    \E in \in SwapInputs :
        Invoke("Swap", in, [a |-> in.amount, b |-> 0],
               process_swap(Ledger, in.acc, in.signers, in.amount))

ClosePool ==
    \E in \in ClosePoolInputs :
        Invoke("ClosePool", in, NoArgs,
               process_close_pool(Ledger, in.acc, in.signers))

\* the record of the last invocation is dropped
NextTransaction ==
    /\ last # NoInvocation
    /\ last' = NoInvocation
    /\ UNCHANGED <<pool_authority, swap_state_data, lamports, amount, supply, ops, pricing, codec>>

Init ==
    /\ pool_authority \in AuthorityKeys
    /\ swap_state_data = None
    \* a user holds rent for more than one record before the pool is made
    /\ lamports = [k \in Users \cup {find_program_address_key} \cup AuthorityKeys |->
                      IF k \in Users THEN 3 * minimum_balance(SwapState_LEN) ELSE 0]
    /\ amount = [k \in TokenAccounts |->
                    IF k \in {"admin_a", "admin_b", "mallory_a", "mallory_b"}
                    THEN InitialBalance ELSE 0]
    /\ supply = [m \in Mints |-> IF m = "swap_mint" THEN 0 ELSE 2 * InitialBalance]
    /\ ops = 0
    /\ last = NoInvocation
    /\ pricing = [fn |-> "None", ran |-> FALSE, result |-> None]
    /\ codec = [fn |-> "None", value |-> None, bytes |-> None, unpacked |-> None]

Next ==
    \/ Initialize
    \/ AdminDeposit
    \/ Deposit
    \/ Withdraw
    \/ Swap
    \/ ClosePool
    \/ NextTransaction

Spec == Init /\ [][Next]_vars

(***************************************************************************)
(* The pricing functions on their own (state.rs 238-323).  A call is drawn *)
(* from the small supplies, amounts and prices and from the calls of the   *)
(* tests of state.rs; the function is then applied to it.  The numbers of  *)
(* a call are u64 values; the result is Some of the u64 returned, or None  *)
(* where an `expect` panics.                                               *)
(***************************************************************************)
\* deposits on both sides of 2^32
WideDeposits == {BigSub(BigPow2(32), <<2>>), BigPow2(32)}

PricingInputs ==
    { [fn |-> "calculate_swap_tokens", tokens_deposit |-> BigFromNat(d),
       vault_a_supply |-> BigFromNat(va), token_a_market_price |-> BigFromNat(pa),
       fee_vault_a_supply |-> BigFromNat(fa),
       vault_b_supply |-> BigFromNat(vb), token_b_market_price |-> BigFromNat(pb),
       fee_vault_b_supply |-> BigFromNat(fb),
       swap_supply |-> BigFromNat(s), ran |-> FALSE, result |-> None]
        : d \in 0..MaxSupply, va \in 0..MaxSupply, vb \in 0..MaxSupply,
          s \in 0..MaxSupply, pa \in 0..MaxPrice, pb \in 0..MaxPrice,
          fa \in {0, MaxSupply}, fb \in {0, MaxSupply} }
    \cup
    \* tests::test_calc_swap_token (state.rs 493-550)
    { [fn |-> "calculate_swap_tokens", tokens_deposit |-> BigFromNat(10000000),
       vault_a_supply |-> BigFromNat(c[1]), token_a_market_price |-> <<1>>,
       fee_vault_a_supply |-> BigFromNat(c[2]),
       vault_b_supply |-> BigFromNat(c[3]), token_b_market_price |-> <<1>>,
       fee_vault_b_supply |-> <<>>,
       swap_supply |-> BigFromNat(c[4]), ran |-> FALSE, result |-> None]
        : c \in { <<100000000, 0, 100000000, 200000000>>,
                  <<100000000, 0, 110000000, 210000000>>,
                  <<110000000, 100000000, 110000000, 221000000>> } }
    \cup
    \* deposits near 2^32 into a pool of two units that has issued 2^33
    { [fn |-> "calculate_swap_tokens", tokens_deposit |-> d,
       vault_a_supply |-> <<1>>, token_a_market_price |-> <<1>>,
       fee_vault_a_supply |-> <<>>,
       vault_b_supply |-> <<1>>, token_b_market_price |-> <<1>>,
       fee_vault_b_supply |-> <<>>,
       swap_supply |-> BigPow2(33), ran |-> FALSE, result |-> None]
        : d \in WideDeposits }
    \cup
    \* a deposit of 2^32 into the empty side of a pool that holds 2^32 of asset
    \* B and has issued 2^32 for them
    { [fn |-> "calculate_swap_tokens", tokens_deposit |-> BigPow2(32),
       vault_a_supply |-> <<>>, token_a_market_price |-> <<1>>,
       fee_vault_a_supply |-> <<>>,
       vault_b_supply |-> BigPow2(32), token_b_market_price |-> <<1>>,
       fee_vault_b_supply |-> <<>>,
       swap_supply |-> BigPow2(32), ran |-> FALSE, result |-> None] }
    \cup
    { [fn |-> "calculate_tokens_to_swap", source_supply |-> BigFromNat(ss),
       source_market_price |-> BigFromNat(sp),
       destination_market_price |-> BigFromNat(dp),
       destination_supply |-> BigFromNat(ds), token_amount |-> BigFromNat(a),
       ran |-> FALSE, result |-> None]
        : ss \in 0..(2 * MaxSupply), ds \in 0..MaxSupply, a \in 0..MaxSupply,
          sp \in 0..MaxPrice, dp \in 0..MaxPrice }
    \cup
    \* the market values of vaults, those of empty vaults included
    { [fn |-> "get_price_premium", vault_a_value |-> BigFromNat(va),
       vault_b_value |-> BigFromNat(vb), ran |-> FALSE, result |-> None]
        : va \in 0..(MaxSupply * MaxPrice) \cup {110000000},
          vb \in 0..(MaxSupply * MaxPrice) \cup {110000000} }
    \cup
    \* tests::test_calc_tokens_to_swap (state.rs 590-609)
    { [fn |-> "calculate_tokens_to_swap", source_supply |-> BigFromNat(10000000),
       source_market_price |-> <<1>>, destination_market_price |-> <<1>>,
       destination_supply |-> BigFromNat(ds), token_amount |-> BigFromNat(1000000),
       ran |-> FALSE, result |-> None]
        : ds \in {10000000, 5000000} }

\* SwapState::calculate_swap_tokens applied to the call
CalculateSwapTokens ==
    /\ pricing.fn = "calculate_swap_tokens"
    /\ ~pricing.ran
    /\ pricing' = [pricing EXCEPT !.ran = TRUE, !.result = calculate_swap_tokens(
          pricing.tokens_deposit, pricing.vault_a_supply,
          pricing.token_a_market_price, pricing.fee_vault_a_supply,
          pricing.vault_b_supply, pricing.token_b_market_price,
          pricing.fee_vault_b_supply, pricing.swap_supply)]
    /\ UNCHANGED <<pool_authority, swap_state_data, lamports, amount, supply, ops, last, codec>>

\* SwapState::calculate_tokens_to_swap applied to the call
CalculateTokensToSwap ==
    /\ pricing.fn = "calculate_tokens_to_swap"
    /\ ~pricing.ran
    /\ pricing' = [pricing EXCEPT !.ran = TRUE, !.result = calculate_tokens_to_swap(
          pricing.source_supply, pricing.source_market_price,
          pricing.destination_market_price, pricing.destination_supply,
          pricing.token_amount)]
    /\ UNCHANGED <<pool_authority, swap_state_data, lamports, amount, supply, ops, last, codec>>

\* SwapState::get_price_premium applied to the two values; the result is
\* the raw value of the PreciseNumber returned
GetPricePremium ==
    /\ pricing.fn = "get_price_premium"
    /\ ~pricing.ran
    /\ pricing' = [pricing EXCEPT !.ran = TRUE, !.result = get_price_premium(
          PN_new(pricing.vault_a_value), PN_new(pricing.vault_b_value))]
    /\ UNCHANGED <<pool_authority, swap_state_data, lamports, amount, supply, ops, last, codec>>

PricingInit ==
    /\ pricing \in PricingInputs
    /\ codec = [fn |-> "None", value |-> None, bytes |-> None, unpacked |-> None]
    /\ pool_authority = "authority251"
    /\ swap_state_data = None
    /\ lamports = [k \in Users \cup {find_program_address_key} \cup AuthorityKeys |-> 0]
    /\ amount = [k \in TokenAccounts |-> 0]
    /\ supply = [m \in Mints |-> 0]
    /\ ops = 0
    /\ last = NoInvocation

PricingNext == CalculateSwapTokens \/ CalculateTokensToSwap \/ GetPricePremium

PricingSpec == PricingInit /\ [][PricingNext]_vars

(***************************************************************************)
(* The encodings on their own: the pool record (state.rs 45-106, 342-375)  *)
(* and the instruction data (instructions.rs 110-222).  A Pubkey is its 32 *)
(* bytes, a u64 a multi-limb natural, a byte a number in 0..255.  A value  *)
(* is packed and its bytes are unpacked; bytes that no pack produced are   *)
(* unpacked as well.                                                       *)
(***************************************************************************)

RECURSIVE to_be_bytes(_, _)
\* the n bytes of x, most significant first
to_be_bytes(x, n) ==
    IF n = 0 THEN <<>>
    ELSE to_be_bytes(BigDivMod(x, <<256>>)[1], n - 1)
             \o <<BigToNat(BigDivMod(x, <<256>>)[2])>>

RECURSIVE to_le_bytes(_, _)
\* u64::to_le_bytes: the n bytes of x, least significant first
to_le_bytes(x, n) ==
    IF n = 0 THEN <<>>
    ELSE <<BigToNat(BigDivMod(x, <<256>>)[2])>>
             \o to_le_bytes(BigDivMod(x, <<256>>)[1], n - 1)

RECURSIVE from_be_bytes(_)
\* the number whose bytes are these, most significant first
from_be_bytes(bytes) ==
    IF bytes = <<>> THEN <<>>
    ELSE BigAdd(BigFromNat(bytes[Len(bytes)]),
                BigMulSmall(from_be_bytes(SubSeq(bytes, 1, Len(bytes) - 1)), 256))

RECURSIVE from_le_bytes(_)
\* u64::from_le_bytes
from_le_bytes(bytes) ==
    IF bytes = <<>> THEN <<>>
    ELSE BigAdd(BigFromNat(bytes[1]), BigMulSmall(from_le_bytes(Tail(bytes)), 256))

\* <Token as Pack>::pack_into_slice
Token_pack_into_slice(token) ==
    token.mint \o token.vault \o token.fee_vault \o token.oracle

\* <Token as Pack>::unpack_from_slice
Token_unpack_from_slice(input) ==
    [mint      |-> SubSeq(input, 1, 32),
     vault     |-> SubSeq(input, 33, 64),
     fee_vault |-> SubSeq(input, 65, 96),
     oracle    |-> SubSeq(input, 97, 128)]

\* <SwapState as Pack>::pack_into_slice: the 371 bytes of the record
SwapState_pack_into_slice(swap_state) ==
    swap_state.admin
        \o <<swap_state.bump>>
        \o <<IF swap_state.is_initialized THEN 1 ELSE 0>>
        \o swap_state.swap_authority
        \o <<swap_state.swap_authority_bump>>
        \o swap_state.swap_mint
        \o Token_pack_into_slice(swap_state.token_a)
        \o Token_pack_into_slice(swap_state.token_b)
        \o to_le_bytes(swap_state.program_fee, 8)
        \o to_le_bytes(swap_state.swap_fee, 8)

\* <SwapState as Pack>::unpack_from_slice on bytes; array_ref! panics on
\* fewer than 371 bytes
SwapState_unpack_from_slice(input) ==
    IF Len(input) < SwapState_LEN THEN [result |-> "Panic", value |-> None]
    ELSE IF input[34] \notin {0, 1}
    THEN [result |-> "InvalidAccountData", value |-> None]
    ELSE [result |-> "Ok", value |-> Some(
            [admin               |-> SubSeq(input, 1, 32),
             bump                |-> input[33],
             is_initialized      |-> (input[34] = 1),
             swap_authority      |-> SubSeq(input, 35, 66),
             swap_authority_bump |-> input[67],
             swap_mint           |-> SubSeq(input, 68, 99),
             token_a |-> Token_unpack_from_slice(SubSeq(input, 100, 227)),
             token_b |-> Token_unpack_from_slice(SubSeq(input, 228, 355)),
             program_fee         |-> from_le_bytes(SubSeq(input, 356, 363)),
             swap_fee            |-> from_le_bytes(SubSeq(input, 364, 371))])]

\* the instructions with two u64 operands and their tags
TwoAmountTags == [AdminDeposit |-> 1, Deposit |-> 2, Withdraw |-> 3]

\* ZionInstruction::pack.  An instruction is its name, the record Initialize
\* carries and the u64 operands the others carry.
ZionInstruction_pack(instruction) ==
    IF instruction.op = "Initialize"
    THEN <<0>> \o SwapState_pack_into_slice(Unwrap(instruction.swap_state))
    ELSE IF instruction.op \in DOMAIN TwoAmountTags
    THEN <<TwoAmountTags[instruction.op]>>
             \o to_le_bytes(instruction.amounts[1], 8)
             \o to_le_bytes(instruction.amounts[2], 8)
    ELSE IF instruction.op = "Swap"
    THEN <<4>> \o to_le_bytes(instruction.amounts[1], 8)
    ELSE <<>>

\* ZionInstruction::unpack; array_ref! panics where the operands are short
ZionInstruction_unpack(input) ==
    IF input = <<>>
    THEN [result |-> "Ok",
          value |-> Some([op |-> "ClosePool", swap_state |-> None, amounts |-> <<>>])]
    ELSE IF input[1] = 0
    THEN IF SwapState_unpack_from_slice(Tail(input)).result # "Ok"
         THEN SwapState_unpack_from_slice(Tail(input))
         ELSE [result |-> "Ok",
               value |-> Some([op |-> "Initialize",
                               swap_state |-> SwapState_unpack_from_slice(Tail(input)).value,
                               amounts |-> <<>>])]
    ELSE IF \E op \in DOMAIN TwoAmountTags : TwoAmountTags[op] = input[1]
    THEN IF Len(input) < 17 THEN [result |-> "Panic", value |-> None]
         ELSE [result |-> "Ok",
               value |-> Some(
                   [op |-> CHOOSE op \in DOMAIN TwoAmountTags :
                                TwoAmountTags[op] = input[1],
                    swap_state |-> None,
                    amounts |-> <<from_le_bytes(SubSeq(input, 2, 9)),
                                  from_le_bytes(SubSeq(input, 10, 17))>>])]
    ELSE IF input[1] = 4
    THEN IF Len(input) < 9 THEN [result |-> "Panic", value |-> None]
         ELSE [result |-> "Ok",
               value |-> Some([op |-> "Swap", swap_state |-> None,
                               amounts |-> <<from_le_bytes(SubSeq(input, 2, 9))>>])]
    ELSE [result |-> "InvalidInstruction", value |-> None]

\* u64 values: the ends of the range and values of one, two and five bytes
U64Samples == {<<>>, <<1>>, BigFromNat(256), BigPow2(32), BigSub(BigPow2(64), <<1>>)}

\* the 32 bytes of the n-th Pubkey
Key(n) == [i \in 1..32 |-> (n * i) % 256]

\* pool records of every flag, of bumps at both ends and of sample fees
SwapStates ==
    { [admin               |-> Key(a),
       bump                |-> b,
       is_initialized      |-> f,
       swap_authority      |-> Key(MaxKey + 1),
       swap_authority_bump |-> 255 - b,
       swap_mint           |-> Key(MaxKey + 2),
       token_a |-> [mint |-> Key(ta), vault |-> Key(ta + 10),
                    fee_vault |-> Key(ta + 20), oracle |-> Key(ta + 30)],
       token_b |-> [mint |-> Key(tb), vault |-> Key(tb + 10),
                    fee_vault |-> Key(tb + 20), oracle |-> Key(tb + 30)],
       program_fee         |-> pf,
       swap_fee            |-> sf]
        : a \in 1..MaxKey, b \in {0, 251, 255}, f \in BOOLEAN,
          ta \in 1..MaxKey, tb \in 1..MaxKey,
          pf \in U64Samples, sf \in U64Samples }

\* the instructions
ZionInstructions ==
    { [op |-> "Initialize", swap_state |-> Some(r), amounts |-> <<>>]
        : r \in {r \in SwapStates : r.program_fee = <<1>>} }
    \cup { [op |-> op, swap_state |-> None, amounts |-> <<a, b>>]
             : op \in DOMAIN TwoAmountTags, a \in U64Samples, b \in U64Samples }
    \cup { [op |-> "Swap", swap_state |-> None, amounts |-> <<a>>]
             : a \in U64Samples }
    \cup { [op |-> "ClosePool", swap_state |-> None, amounts |-> <<>>] }

\* values to pack, and bytes that are given to unpack as they are: records
\* with another flag byte, instruction data with another tag, short data
CodecInputs ==
    { [fn |-> "SwapState", value |-> Some(r), bytes |-> None, unpacked |-> None]
        : r \in SwapStates }
    \cup
    { [fn |-> "SwapState", value |-> None,
       bytes |-> Some([SwapState_pack_into_slice(r) EXCEPT ![34] = flag]),
       unpacked |-> None]
        : r \in {r \in SwapStates : r.program_fee = <<1>> /\ r.swap_fee = <<1>>},
          flag \in {2, 255} }
    \cup
    { [fn |-> "ZionInstruction", value |-> Some(i), bytes |-> None, unpacked |-> None]
        : i \in ZionInstructions }
    \cup
    { [fn |-> "ZionInstruction", value |-> None, bytes |-> Some(<<tag>> \o data),
       unpacked |-> None]
        : tag \in {1, 4, 5, 6, 255},
          data \in {<<>>, to_le_bytes(<<1>>, 8),
                    to_le_bytes(<<1>>, 8) \o to_le_bytes(<<1>>, 8)} }

\* pack_into_slice, ZionInstruction::pack applied to the value
Pack ==
    /\ codec.value # None
    /\ codec.bytes = None
    /\ codec' = [codec EXCEPT !.bytes =
          IF codec.fn = "SwapState"
          THEN Some(SwapState_pack_into_slice(Unwrap(codec.value)))
          ELSE Some(ZionInstruction_pack(Unwrap(codec.value)))]
    /\ UNCHANGED <<pool_authority, swap_state_data, lamports, amount, supply, ops, last, pricing>>

\* unpack_from_slice, ZionInstruction::unpack applied to the bytes
Unpack ==
    /\ codec.bytes # None
    /\ codec.unpacked = None
    /\ codec' = [codec EXCEPT !.unpacked =
          IF codec.fn = "SwapState"
          THEN Some(SwapState_unpack_from_slice(Unwrap(codec.bytes)))
          ELSE Some(ZionInstruction_unpack(Unwrap(codec.bytes)))]
    /\ UNCHANGED <<pool_authority, swap_state_data, lamports, amount, supply, ops, last, pricing>>

CodecInit ==
    /\ codec \in CodecInputs
    /\ pricing = [fn |-> "None", ran |-> FALSE, result |-> None]
    /\ pool_authority = "authority251"
    /\ swap_state_data = None
    /\ lamports = [k \in Users \cup {find_program_address_key} \cup AuthorityKeys |-> 0]
    /\ amount = [k \in TokenAccounts |-> 0]
    /\ supply = [m \in Mints |-> 0]
    /\ ops = 0
    /\ last = NoInvocation

CodecNext == Pack \/ Unpack

CodecSpec == CodecInit /\ [][CodecNext]_vars

(***************************************************************************)
(* Properties.  They are stated on the record of the last invocation: the  *)
(* steps it took, the ledger it started from and the ledger it returned.   *)
(***************************************************************************)
\* error.rs: the tagged errors of the program
ZionError ==
    {"InvalidInstruction", "IncorrectTokenProgramId", "ExpectedTokenAccount",
     "ExpectedMint", "PoolAlreadyInitialized", "PoolNotInitialized",
     "SwapStateWrongOwner", "InvalidSwapAuthority", "InvalidTokenProgramKey",
     "InvalidSystemProgramKey", "NotOwnedByTokenProgram", "IdenticalMints",
     "InvalidSupply", "InvalidTokenAmount", "ZeroTokens", "InvalidAuthority",
     "InvalidOwner", "InvalidSwapState", "MintNotInitialized", "SwapStateInitialized",
     "InvalidMint", "InvalidVault", "InvalidFeeVault", "InvalidSwapMint",
     "InvalidOracle", "DecimalsDifferent", "MustBeAdmin", "InvalidSigner",
     "InsufficientSwapTokens"}

\* the positions of the external calls the last invocation issued
IssuedCalls == { i \in 1..Len(last.steps) : last.steps[i].kind = "call" }

\* the record the last invocation read
StoredRecord == Unwrap(last.pre.data)

\* the operations on an initialized pool that move tokens
TokenOperations == {"AdminDeposit", "Deposit", "Withdraw", "Swap"}

\* C1: an AdminDeposit invocation issues a transfer or a liquidity-token mint
\* only if its first account has signed and is the admin stored in the pool
\* record.
C1_AdminDepositPrivileged ==
    (last.op = "AdminDeposit" /\ IssuedCalls # {})
        => /\ last.acc.admin_info \in last.signers
           /\ last.acc.admin_info = StoredRecord.admin

\* the cost process_withdraw computed and the balance it compared it with
WithdrawCompared ==
    /\ last.op = "Withdraw"
    /\ Len(last.steps) >= 2
    /\ last.steps[1].kind = "compute"
    /\ last.steps[2].kind = "compute"
WithdrawCost == last.steps[1].amount + last.steps[2].amount
WithdrawBalance == last.pre.amount[last.acc.swap_token_user_info]

\* C2: a Withdraw whose computed cost (costA + costB) is not strictly below
\* the caller's liquidity-token balance, a cost equal to the balance included,
\* returns InsufficientSwapTokens and issues no transfer and no burn.
C2_WithdrawStrict ==
    (WithdrawCompared /\ WithdrawCost >= WithdrawBalance)
        => /\ last.result = "InsufficientSwapTokens"
           /\ IssuedCalls = {}

\* a Withdraw whose cost equals a positive balance has been refused
C2_Witness ==
    /\ WithdrawCompared
    /\ WithdrawBalance > 0
    /\ WithdrawCost = WithdrawBalance
    /\ last.result = "InsufficientSwapTokens"

\* C3: a Swap issues a transfer only if the source and destination oracle
\* accounts it is given are the oracles stored in the pool record for the
\* token slots of its source and destination vaults.
C3_SwapOraclesStored ==
    (last.op = "Swap" /\ IssuedCalls # {})
        => IF last.acc.source_vault_info = StoredRecord.token_a.vault
           THEN /\ last.acc.source_oracle_info = StoredRecord.token_a.oracle
                /\ last.acc.destination_oracle_info = StoredRecord.token_b.oracle
           ELSE /\ last.acc.source_oracle_info = StoredRecord.token_b.oracle
                /\ last.acc.destination_oracle_info = StoredRecord.token_a.oracle

\* C4: every call of AdminDeposit, Deposit, Withdraw and Swap that the pool
\* authority signs (the vault debits, the liquidity-token mints) carries the
\* signer seeds {AUTHORITY_PREFIX, authority bump stored in the pool record}.
C4_AuthoritySeedsStored ==
    last.op \in TokenOperations
        => \A i \in IssuedCalls :
              last.steps[i].authority = last.acc.swap_authority_info
                  => last.steps[i].seeds
                         = <<AUTHORITY_PREFIX, StoredRecord.swap_authority_bump>>

\* C5: in every state with an initialized pool record the authority stored
\* in the record is the address derived from {AUTHORITY_PREFIX, stored
\* authority bump}.
C5_StoredAuthorityDerived ==
    swap_state_data # None
        => create_program_address(AUTHORITY_PREFIX,
                                  Unwrap(swap_state_data).swap_authority_bump)
               = Some(Unwrap(swap_state_data).swap_authority)

\* C6: in AdminDeposit, Deposit, Withdraw and Swap no pricing computation,
\* error return or abort comes after the first external call: once a call
\* has been issued only calls follow.
C6_PricingBeforeCalls ==
    last.op \in TokenOperations
        => \A i \in IssuedCalls :
              \A j \in (i + 1)..Len(last.steps) : last.steps[j].kind = "call"

\* C7: an invocation that returns a tagged error of the program has issued
\* no external call and has left the pool record and every lamport balance
\* as they were, in the ledger it returned and in the ledger that persists.
C7_TaggedErrorNoEffect ==
    (last.op # "None" /\ last.result \in ZionError)
        => /\ IssuedCalls = {}
           /\ last.at_return.data = last.pre.data
           /\ last.at_return.lamports = last.pre.lamports
           /\ swap_state_data = last.pre.data
           /\ lamports = last.pre.lamports

\* an invocation on an initialized pool has returned a tagged error after
\* its pricing
C7_Witness ==
    /\ last.op \in TokenOperations
    /\ last.result \in ZionError
    /\ last.pre.data # None
    /\ \E i \in 1..Len(last.steps) : last.steps[i].kind = "compute"

\* the results of the checks process_initialize makes up to the check that
\* the record account holds no data (processor.rs 168-187)
InitializeRefusals ==
    {"InvalidArgument", "InvalidTokenProgramKey", "InvalidSystemProgramKey",
     "InvalidSigner", "InvalidSwapState", "AccountAlreadyInitialized"}

\* the record account exists and holds the record of a pool
RecordExists(L) == L.data # None /\ L.lamports[find_program_address_key] > 0

\* C8: an Initialize on a record account that exists and holds the record an
\* earlier Initialize packed fails, at the latest at the check that the
\* account holds no data, and leaves the record unchanged.
C8_InitializeOnce ==
    (last.op = "Initialize" /\ RecordExists(last.pre))
        => /\ last.result \in InitializeRefusals
           /\ IssuedCalls = {}
           /\ last.at_return.data = last.pre.data
           /\ swap_state_data = last.pre.data

\* a signed Initialize with the accounts of the pool has been refused
\* because the record account holds data
C8_Witness ==
    /\ last.op = "Initialize"
    /\ RecordExists(last.pre)
    /\ last.acc.admin_info \in last.signers
    /\ last.result = "AccountAlreadyInitialized"
    /\ swap_state_data = last.pre.data

\* the pool has been closed: the record account has given up its lamports
PoolClosed(L) == L.data # None /\ L.lamports[find_program_address_key] = 0

\* C9: after a successful ClosePool every later invocation fails.
C9_ClosedTerminal ==
    (last.op # "None" /\ PoolClosed(last.pre)) => last.result # "Ok"

\* C10: when a ClosePool returns Ok the data of the record account no longer
\* holds the record of the pool.
C10_ClosePoolZeroes ==
    (last.op = "ClosePool" /\ last.result = "Ok") => last.at_return.data = None

\* C11: when a ClosePool returns Ok the record account holds no lamports and
\* the admin holds what it held before plus what the record held before, in
\* the ledger returned and in the ledger that persists; the sum of the two
\* balances is what it was.
C11_ClosePoolReclaimsRent ==
    (last.op = "ClosePool" /\ last.result = "Ok")
        => /\ last.at_return.lamports[last.acc.swap_state_info] = 0
           /\ last.at_return.lamports[last.acc.admin_info]
                  = last.pre.lamports[last.acc.admin_info]
                    + last.pre.lamports[last.acc.swap_state_info]
           /\ lamports = last.at_return.lamports
           /\ \A k \in DOMAIN lamports \ {last.acc.swap_state_info, last.acc.admin_info} :
                  lamports[k] = last.pre.lamports[k]

\* a ClosePool has moved the rent of a funded record to the admin
C11_Witness ==
    /\ last.op = "ClosePool"
    /\ last.result = "Ok"
    /\ last.pre.lamports[find_program_address_key] >= minimum_balance(SwapState_LEN)
    /\ lamports[find_program_address_key] = 0
    /\ lamports[last.acc.admin_info] > last.pre.lamports[last.acc.admin_info]

\* a ClosePool on the record account of an initialized pool
ClosePoolOnRecord ==
    /\ last.op = "ClosePool"
    /\ last.acc.swap_state_info = find_program_address_key
    /\ last.pre.data # None

\* C12: a ClosePool on an initialized pool returns MustBeAdmin when its first
\* account is not the stored admin, InvalidSigner when the stored admin is
\* given but has not signed, InvalidSwapAuthority when the signed admin gives
\* an authority other than the stored one; it returns Ok in no other case
\* than the signed stored admin with the stored authority, and a ClosePool
\* that fails moves no lamports.
C12_ClosePoolAdminOnly ==
    ClosePoolOnRecord
        => /\ last.acc.admin_info # StoredRecord.admin => last.result = "MustBeAdmin"
           /\ (last.acc.admin_info = StoredRecord.admin
                /\ last.acc.admin_info \notin last.signers)
                  => last.result = "InvalidSigner"
           /\ (last.acc.admin_info = StoredRecord.admin
                /\ last.acc.admin_info \in last.signers
                /\ last.acc.swap_authority_info # StoredRecord.swap_authority)
                  => last.result = "InvalidSwapAuthority"
           /\ last.result = "Ok"
                  => /\ last.acc.admin_info = StoredRecord.admin
                     /\ last.acc.admin_info \in last.signers
                     /\ last.acc.swap_authority_info = StoredRecord.swap_authority
           /\ last.result # "Ok"
                  => /\ last.at_return.lamports = last.pre.lamports
                     /\ lamports = last.pre.lamports

\* the signed admin has been refused a ClosePool of a funded record for the
\* authority it gave
C12_Witness ==
    /\ ClosePoolOnRecord
    /\ last.acc.admin_info = StoredRecord.admin
    /\ last.acc.admin_info \in last.signers
    /\ last.pre.lamports[find_program_address_key] > 0
    /\ last.result = "InvalidSwapAuthority"

\* the operations of an initialized pool
PoolOperations == TokenOperations \cup {"ClosePool"}

\* C13: while no Initialize has succeeded (the record account holds no data)
\* an AdminDeposit, Deposit, Withdraw, Swap or ClosePool does not return Ok
\* and issues no external call, and no pool record persists.
C13_InitializedOnly ==
    /\ (last.op \in PoolOperations /\ last.pre.data = None)
          => /\ last.result # "Ok"
             /\ IssuedCalls = {}
             /\ swap_state_data = None
    /\ (swap_state_data = None /\ last.op \in PoolOperations) => last.result # "Ok"

\* a signed Deposit with the accounts of the pool has failed on a record
\* account without data
C13_Witness ==
    /\ last.op = "Deposit"
    /\ last.pre.data = None
    /\ last.acc.user \in last.signers
    /\ last.acc.swap_state_info = find_program_address_key
    /\ last.result = "Panic"

\* the address derived from AUTHORITY_PREFIX and the authority bump of the
\* record an Initialize has packed
DerivedAuthority ==
    create_program_address(AUTHORITY_PREFIX,
                           Unwrap(last.at_return.data).swap_authority_bump)

\* the last invocation has persisted nothing and allocated nothing
NothingPersisted ==
    /\ IssuedCalls = {}
    /\ last.at_return.data = last.pre.data
    /\ last.at_return.lamports = last.pre.lamports
    /\ swap_state_data = last.pre.data
    /\ lamports = last.pre.lamports

\* C14: an Initialize returns Ok only if the liquidity mint it is given has
\* supply 0 and a mint authority equal to the address derived from
\* {AUTHORITY_PREFIX, authority bump}; an Initialize that returns
\* InvalidSupply or InvalidAuthority has allocated and persisted nothing.
C14_InitializeLiquidityMint ==
    last.op = "Initialize"
        => /\ last.result = "Ok"
                => /\ last.pre.supply[last.acc.swap_mint_info] = 0
                   /\ MintAuthority(last.acc.swap_mint_info) = DerivedAuthority
           /\ last.result \in {"InvalidSupply", "InvalidAuthority"} => NothingPersisted

\* the asset mints and the vaults and fee vaults an Initialize is given
InitializeAssetMints == {last.acc.token_a_mint_info, last.acc.token_b_mint_info}
InitializeVaults ==
    {last.acc.token_a_vault_info, last.acc.token_a_fee_vault_info,
     last.acc.token_b_vault_info, last.acc.token_b_fee_vault_info}

\* C15: an Initialize returns Ok only if both asset mints have a mint
\* authority equal to the derived authority address and the two vaults and
\* two fee vaults are owned by that derived address; an Initialize that
\* returns InvalidAuthority, InvalidSwapAuthority or InvalidOwner has
\* persisted nothing.
C15_InitializeAssetAccounts ==
    last.op = "Initialize"
        => /\ last.result = "Ok"
                => /\ \A m \in InitializeAssetMints : MintAuthority(m) = DerivedAuthority
                   /\ \A v \in InitializeVaults : Some(TokenOwner(v)) = DerivedAuthority
           /\ last.result \in {"InvalidAuthority", "InvalidSwapAuthority", "InvalidOwner"}
                => NothingPersisted

\* C16: every persisted pool record has token_a.mint # token_b.mint: an
\* Initialize given the same mint for both assets does not return Ok, and
\* returns IdenticalMints when its other checks pass, and no invocation on
\* an initialized pool changes either stored mint.
C16_DistinctMints ==
    /\ swap_state_data # None
          => Unwrap(swap_state_data).token_a.mint # Unwrap(swap_state_data).token_b.mint
    /\ (last.op = "Initialize"
         /\ last.acc.token_a_mint_info = last.acc.token_b_mint_info)
          => /\ last.result # "Ok"
             /\ swap_state_data = last.pre.data
             /\ (last.acc.admin_info \in last.signers /\ last.pre.data = None)
                    => last.result = "IdenticalMints"
    /\ (last.op # "None" /\ last.pre.data # None)
          => /\ swap_state_data # None
             /\ Unwrap(swap_state_data).token_a.mint = StoredRecord.token_a.mint
             /\ Unwrap(swap_state_data).token_b.mint = StoredRecord.token_b.mint

\* a signed Initialize given one mint for both assets has been refused with
\* IdenticalMints and no record persists
C16_Witness ==
    /\ last.op = "Initialize"
    /\ last.acc.token_a_mint_info = last.acc.token_b_mint_info
    /\ last.acc.admin_info \in last.signers
    /\ last.result = "IdenticalMints"
    /\ swap_state_data = None

\* the vaults and fee vaults a Swap is given, and the two orders in which the
\* record stores them
SwapVaults ==
    <<last.acc.source_vault_info, last.acc.destination_vault_info,
      last.acc.source_fee_vault_info, last.acc.destination_fee_vault_info>>
StoredVaultsAB ==
    <<StoredRecord.token_a.vault, StoredRecord.token_b.vault,
      StoredRecord.token_a.fee_vault, StoredRecord.token_b.fee_vault>>
StoredVaultsBA ==
    <<StoredRecord.token_b.vault, StoredRecord.token_a.vault,
      StoredRecord.token_b.fee_vault, StoredRecord.token_a.fee_vault>>

\* the results of the checks process_swap makes before it reads the balance
\* of the destination vault (processor.rs 739-765)
SwapEarlierRefusals ==
    {"InvalidTokenProgramKey", "InvalidSigner", "InvalidSwapState", "Panic",
     "InvalidSwapAuthority", "IncorrectTokenProgramId", "ExpectedTokenAccount"}

\* C17: a Swap on an initialized pool issues a transfer only if the balance
\* of the destination vault is above 0, the two oracle accounts differ and
\* its (source vault, destination vault, source fee vault, destination fee
\* vault) are the stored (A, B, A fee, B fee) or the stored (B, A, B fee,
\* A fee).  A Swap that passes the earlier checks is refused with
\* InvalidSupply for an empty destination vault, else with InvalidOracle for
\* equal oracle accounts, else with InvalidVault for other vaults.
C17_SwapRejections ==
    (last.op = "Swap" /\ last.pre.data # None)
        => /\ IssuedCalls # {}
                => /\ last.pre.amount[last.acc.destination_vault_info] > 0
                   /\ last.acc.source_oracle_info # last.acc.destination_oracle_info
                   /\ SwapVaults \in {StoredVaultsAB, StoredVaultsBA}
           /\ last.result \notin SwapEarlierRefusals
                => IF last.pre.amount[last.acc.destination_vault_info] = 0
                   THEN last.result = "InvalidSupply"
                   ELSE IF last.acc.source_oracle_info = last.acc.destination_oracle_info
                   THEN last.result = "InvalidOracle"
                   ELSE IF SwapVaults \notin {StoredVaultsAB, StoredVaultsBA}
                   THEN last.result = "InvalidVault"
                   ELSE last.result \notin {"InvalidSupply", "InvalidOracle", "InvalidVault"}
           /\ last.result \in {"InvalidSupply", "InvalidOracle", "InvalidVault"}
                => IssuedCalls = {}

\* a signed Swap into a funded destination vault with two different oracle
\* accounts has been refused for the vaults it gave
C17_Witness ==
    /\ last.op = "Swap"
    /\ last.pre.data # None
    /\ last.acc.user \in last.signers
    /\ last.pre.amount[last.acc.destination_vault_info] > 0
    /\ last.acc.source_oracle_info # last.acc.destination_oracle_info
    /\ last.result = "InvalidVault"

\* a call of calculate_swap_tokens on small numbers that has returned
SmallSwapTokensReturned ==
    /\ pricing.fn = "calculate_swap_tokens"
    /\ pricing.ran
    /\ pricing.result # None
    /\ BigLE(pricing.swap_supply, BigFromNat(MaxSupply))

\* a value with the minimum of one unit the pricing gives it
Floored(value) == IF value = 0 THEN 1 ELSE value

\* liquiditySupply * depositAmount * (the other side's vault value)
PremiumNumerator ==
    BigToNat(pricing.swap_supply) * BigToNat(pricing.tokens_deposit)
        * Floored(BigToNat(pricing.vault_b_supply)
                      * BigToNat(pricing.token_b_market_price))

\* (the deposit side's vault value) * totalProtocolValue
PremiumDenominator ==
    Floored(BigToNat(pricing.vault_a_supply) * BigToNat(pricing.token_a_market_price))
        * Floored((BigToNat(pricing.vault_a_supply)
                       + BigToNat(pricing.fee_vault_a_supply))
                      * BigToNat(pricing.token_a_market_price)
                  + (BigToNat(pricing.vault_b_supply)
                       + BigToNat(pricing.fee_vault_b_supply))
                      * BigToNat(pricing.token_b_market_price))

\* the call of the chained scenario with this liquidity supply
ScenarioCall(swap_supply) ==
    /\ pricing.fn = "calculate_swap_tokens"
    /\ pricing.ran
    /\ pricing.swap_supply = BigFromNat(swap_supply)

\* C18: a deposit returns liquiditySupply * depositAmount * premium /
\* totalProtocolValue, rounded to the nearest unit, with premium the other
\* side's vault value over the deposit side's; the three deposits of the
\* chained scenario mint 10,000,000, then 11,000,000, then 6,906,250.
C18_DepositFormula ==
    /\ (pricing.fn = "calculate_swap_tokens" /\ pricing.ran) => pricing.result # None
    /\ SmallSwapTokensReturned =>
          /\ 2 * (BigToNat(Unwrap(pricing.result)) * PremiumDenominator
                    - PremiumNumerator) <= PremiumDenominator
          /\ 2 * (PremiumNumerator
                    - BigToNat(Unwrap(pricing.result)) * PremiumDenominator)
                <= PremiumDenominator
    /\ ScenarioCall(200000000) => pricing.result = Some(BigFromNat(10000000))
    /\ ScenarioCall(210000000) => pricing.result = Some(BigFromNat(11000000))
    /\ ScenarioCall(221000000) => pricing.result = Some(BigFromNat(6906250))

C18_Witness ==
    /\ ScenarioCall(221000000)
    /\ pricing.fee_vault_a_supply = BigFromNat(100000000)
    /\ pricing.result = Some(BigFromNat(6906250))

\* the deposits a bounded call can be compared with
ComparedDeposits == {BigFromNat(d) : d \in 0..MaxSupply} \cup WideDeposits

\* what calculate_swap_tokens returns for the call with this deposit instead
ResultWithDeposit(d) ==
    calculate_swap_tokens(d, pricing.vault_a_supply,
        pricing.token_a_market_price, pricing.fee_vault_a_supply,
        pricing.vault_b_supply, pricing.token_b_market_price,
        pricing.fee_vault_b_supply, pricing.swap_supply)

\* C19: the liquidity tokens for a deposit do not decrease as the deposit
\* grows, the other arguments fixed: d1 <= d2 implies result(d1) <= result(d2).
C19_DepositMonotone ==
    (pricing.fn = "calculate_swap_tokens" /\ pricing.ran /\ pricing.result # None) =>
        \A d \in ComparedDeposits :
            (BigLE(d, pricing.tokens_deposit) /\ ResultWithDeposit(d) # None) =>
                BigLE(Unwrap(ResultWithDeposit(d)), Unwrap(pricing.result))

\* a call of calculate_tokens_to_swap with equal prices that has ended
EqualPricesSwap ==
    /\ pricing.fn = "calculate_tokens_to_swap"
    /\ pricing.ran
    /\ pricing.source_market_price = pricing.destination_market_price

\* the destination vault holds half of what the source vault holds
DestinationHalved ==
    2 * BigToNat(pricing.destination_supply) = BigToNat(pricing.source_supply)

\* C20 as stated: with equal prices, equal vault supplies return the input
\* amount unchanged and a destination supply of half the source supply
\* returns half the input amount.
C20_SwapPayoutAnyPrice ==
    EqualPricesSwap =>
        /\ (pricing.source_supply = pricing.destination_supply) =>
              pricing.result = Some(pricing.token_amount)
        /\ DestinationHalved =>
              pricing.result = Some(BigFromNat(BigToNat(pricing.token_amount) \div 2))

\* C20: with equal positive prices, equal vault supplies return the input
\* amount unchanged and a positive destination supply of half the source
\* supply returns half the input amount, rounded down (input 1,000,000,
\* source 10,000,000, destination 5,000,000, prices 1 gives 500,000); with
\* both prices 0 the call panics.
C20_SwapPayout ==
    EqualPricesSwap =>
        IF pricing.destination_market_price = <<>>
        THEN pricing.result = None
        ELSE /\ (pricing.source_supply = pricing.destination_supply) =>
                   pricing.result = Some(pricing.token_amount)
             /\ (DestinationHalved /\ pricing.destination_supply # <<>>) =>
                   pricing.result =
                       Some(BigFromNat(BigToNat(pricing.token_amount) \div 2))

C20_Witness ==
    /\ EqualPricesSwap
    /\ pricing.source_supply = BigFromNat(10000000)
    /\ pricing.destination_supply = BigFromNat(5000000)
    /\ pricing.token_amount = BigFromNat(1000000)
    /\ pricing.result = Some(BigFromNat(500000))

\* the operand of the premium: the value, 1 in the place of 0
PremiumOperand(value) == IF value = <<>> THEN <<1>> ELSE value

\* a call of get_price_premium that has ended
PremiumCall == pricing.fn = "get_price_premium" /\ pricing.ran

\* C21: the premium never divides by zero: an operand that is 0 is replaced
\* by 1, and the result is max(valueB, 1) / max(valueA, 1), to the twelve
\* decimals of a PreciseNumber, for all values, both zero included.
C21_PremiumNoZeroDivision ==
    PremiumCall =>
        /\ pricing.result # None
        \* result * A <= B + A / 2
        /\ BigLE(BigMulSmall(BigMul(Unwrap(pricing.result),
                                    PremiumOperand(pricing.vault_a_value)), 2),
                 BigAdd(BigMulSmall(BigMul(PremiumOperand(pricing.vault_b_value),
                                           ONE), 2),
                        PremiumOperand(pricing.vault_a_value)))
        \* B < result * A + A
        /\ BigLE(BigAdd(BigMul(PremiumOperand(pricing.vault_b_value), ONE), <<1>>),
                 BigAdd(BigMul(Unwrap(pricing.result),
                               PremiumOperand(pricing.vault_a_value)),
                        PremiumOperand(pricing.vault_a_value)))

C21_Witness ==
    /\ PremiumCall
    /\ pricing.vault_a_value = <<>>
    /\ pricing.vault_b_value = <<>>
    /\ pricing.result = Some(ONE)

\* bytes of a pool record have been unpacked
RecordUnpacked == codec.fn = "SwapState" /\ codec.unpacked # None

\* C22: unpacking the 371 bytes a pool record packs to gives a record equal
\* to it in every field; bytes whose initialized flag is neither 0 nor 1
\* are rejected.
C22_RecordRoundTrip ==
    RecordUnpacked =>
        /\ Len(Unwrap(codec.bytes)) = 371
        /\ codec.value # None =>
              /\ Unwrap(codec.unpacked).result = "Ok"
              /\ Unwrap(Unwrap(codec.unpacked).value) = Unwrap(codec.value)
        /\ Unwrap(codec.bytes)[34] \notin {0, 1} =>
              /\ Unwrap(codec.unpacked).result = "InvalidAccountData"
              /\ Unwrap(codec.unpacked).value = None

C22_Witness ==
    /\ RecordUnpacked
    /\ codec.value # None
    /\ Unwrap(codec.value).is_initialized
    /\ Unwrap(codec.value).bump = 251
    /\ Unwrap(codec.value).swap_fee = BigSub(BigPow2(64), <<1>>)
    /\ Unwrap(codec.value).program_fee = BigFromNat(256)
    /\ Unwrap(Unwrap(codec.unpacked).value) = Unwrap(codec.value)

\* instruction data have been unpacked
InstructionUnpacked == codec.fn = "ZionInstruction" /\ codec.unpacked # None

\* the eight bytes of a sample value, least significant first
LittleEndian(x) ==
    IF x = <<>> THEN <<0, 0, 0, 0, 0, 0, 0, 0>>
    ELSE IF x = <<1>> THEN <<1, 0, 0, 0, 0, 0, 0, 0>>
    ELSE IF x = BigFromNat(256) THEN <<0, 1, 0, 0, 0, 0, 0, 0>>
    ELSE IF x = BigPow2(32) THEN <<0, 0, 0, 0, 1, 0, 0, 0>>
    ELSE <<255, 255, 255, 255, 255, 255, 255, 255>>

\* the tag of an instruction that has one
TagOf(op) ==
    IF op = "Initialize" THEN 0
    ELSE IF op = "AdminDeposit" THEN 1
    ELSE IF op = "Deposit" THEN 2
    ELSE IF op = "Withdraw" THEN 3
    ELSE 4

\* the operands of the packed instruction follow its tag, little-endian
OperandsLittleEndian ==
    \A k \in 1..Len(Unwrap(codec.value).amounts) :
        SubSeq(Unwrap(codec.bytes), 8 * k - 6, 8 * k + 1)
            = LittleEndian(Unwrap(codec.value).amounts[k])

\* C23: unpack(pack(i)) = i for every instruction i; pack emits the tag 0
\* for Initialize, 1 AdminDeposit, 2 Deposit, 3 Withdraw, 4 Swap, followed
\* by the operands little-endian, and nothing for ClosePool; unpack of
\* nothing is ClosePool, and a first byte outside 0..4 is InvalidInstruction.
C23_InstructionRoundTrip ==
    InstructionUnpacked =>
        /\ codec.value # None =>
              /\ Unwrap(codec.unpacked).result = "Ok"
              /\ Unwrap(Unwrap(codec.unpacked).value).op = Unwrap(codec.value).op
              /\ Unwrap(Unwrap(codec.unpacked).value) = Unwrap(codec.value)
              /\ IF Unwrap(codec.value).op = "ClosePool"
                 THEN Unwrap(codec.bytes) = <<>>
                 ELSE /\ Unwrap(codec.bytes)[1] = TagOf(Unwrap(codec.value).op)
                      /\ Len(Unwrap(codec.bytes))
                            = 1 + 8 * Len(Unwrap(codec.value).amounts)
                                + 371 * Len(Unwrap(codec.value).swap_state)
                      /\ OperandsLittleEndian
        /\ Unwrap(codec.bytes) = <<>> =>
              /\ Unwrap(codec.unpacked).result = "Ok"
              /\ Unwrap(Unwrap(codec.unpacked).value).op = "ClosePool"
        /\ (Unwrap(codec.bytes) # <<>> /\ Unwrap(codec.bytes)[1] \notin 0..4) =>
              Unwrap(codec.unpacked).result = "InvalidInstruction"

C23_Witness ==
    /\ InstructionUnpacked
    /\ codec.value # None
    /\ Unwrap(codec.value).op = "Withdraw"
    /\ Unwrap(codec.value).amounts = <<BigFromNat(256), BigSub(BigPow2(64), <<1>>)>>
    /\ Unwrap(codec.bytes)[1] = 3
    /\ Unwrap(Unwrap(codec.unpacked).value) = Unwrap(codec.value)

\* the liquidity tokens for `tokens` of asset A, priced on the balances the
\* two vaults and the two fee vaults held when the invocation began
TokensForA(tokens) ==
    IF tokens = 0 THEN 0
    ELSE AmountOf(calculate_swap_tokens(
             BigFromNat(tokens),
             BigFromNat(last.pre.amount[last.acc.token_a_vault_info]),
             BigFromNat(OraclePrice(last.acc.token_a_oracle_info)),
             BigFromNat(last.pre.amount[last.acc.token_a_fee_vault_info]),
             BigFromNat(last.pre.amount[last.acc.token_b_vault_info]),
             BigFromNat(OraclePrice(last.acc.token_b_oracle_info)),
             BigFromNat(last.pre.amount[last.acc.token_b_fee_vault_info]),
             BigFromNat(last.pre.supply[last.acc.swap_mint_info])))

\* the same for asset B
TokensForB(tokens) ==
    IF tokens = 0 THEN 0
    ELSE AmountOf(calculate_swap_tokens(
             BigFromNat(tokens),
             BigFromNat(last.pre.amount[last.acc.token_b_vault_info]),
             BigFromNat(OraclePrice(last.acc.token_b_oracle_info)),
             BigFromNat(last.pre.amount[last.acc.token_b_fee_vault_info]),
             BigFromNat(last.pre.amount[last.acc.token_a_vault_info]),
             BigFromNat(OraclePrice(last.acc.token_a_oracle_info)),
             BigFromNat(last.pre.amount[last.acc.token_a_fee_vault_info]),
             BigFromNat(last.pre.supply[last.acc.swap_mint_info])))

\* a Deposit or a Withdraw that has returned Ok: its last call is the mint
\* or the burn of the liquidity tokens
LiquidityPriced ==
    /\ last.op \in {"Deposit", "Withdraw"}
    /\ last.result = "Ok"

\* C24: Deposit and Withdraw price liquidity tokens on the total protocol
\* value valueA + valueB + feeValueA + feeValueB, the fee values being the
\* market values of the balances of fee vault A and of fee vault B.
C24_FeeVaultBalancesPriced ==
    LiquidityPriced =>
        last.steps[Len(last.steps)].amount
            = TokensForA(last.args.a) + TokensForB(last.args.b)

\* an AdminDeposit that has returned Ok
AdminDepositDone == last.op = "AdminDeposit" /\ last.result = "Ok"

\* the transfers of the last invocation into this vault
TransfersInto(vault) ==
    { i \in IssuedCalls : last.steps[i].instr = "transfer" /\ last.steps[i].dst = vault }

\* C25: a successful AdminDeposit(a, b) transfers a into vault A and b into
\* vault B, a transfer of 0 being skipped, and mints exactly
\* a * priceA + b * priceB liquidity tokens, with no premium.
C25_AdminDepositMarketValue ==
    AdminDepositDone =>
        /\ Cardinality(TransfersInto(last.acc.token_a_vault_info))
              = IF last.args.a > 0 THEN 1 ELSE 0
        /\ Cardinality(TransfersInto(last.acc.token_b_vault_info))
              = IF last.args.b > 0 THEN 1 ELSE 0
        /\ \A i \in TransfersInto(last.acc.token_a_vault_info) :
              /\ last.steps[i].amount = last.args.a
              /\ last.steps[i].src = last.acc.token_a_admin_wallet
        /\ \A i \in TransfersInto(last.acc.token_b_vault_info) :
              /\ last.steps[i].amount = last.args.b
              /\ last.steps[i].src = last.acc.token_b_admin_wallet
        /\ Cardinality(IssuedCalls)
              = 1 + Cardinality(TransfersInto(last.acc.token_a_vault_info))
                  + Cardinality(TransfersInto(last.acc.token_b_vault_info))
        /\ last.steps[Len(last.steps)].instr = "mint_to"
        /\ last.steps[Len(last.steps)].dst = last.acc.admin_swap_wallet
        /\ last.steps[Len(last.steps)].amount
              = last.args.a * OraclePrice(last.acc.token_a_oracle_info)
                  + last.args.b * OraclePrice(last.acc.token_b_oracle_info)
        /\ last.at_return.amount[last.acc.token_a_vault_info]
              = last.pre.amount[last.acc.token_a_vault_info] + last.args.a
        /\ last.at_return.amount[last.acc.token_b_vault_info]
              = last.pre.amount[last.acc.token_b_vault_info] + last.args.b
        /\ last.at_return.supply[last.acc.swap_mint_info]
              = last.pre.supply[last.acc.swap_mint_info]
                  + last.args.a * OraclePrice(last.acc.token_a_oracle_info)
                  + last.args.b * OraclePrice(last.acc.token_b_oracle_info)

\* an AdminDeposit of both assets into a pool whose vault B is the fuller
C25_Witness ==
    /\ AdminDepositDone
    /\ last.args.a > 0
    /\ last.args.b > 0
    /\ last.steps[Len(last.steps)].amount = 3 * MaxAmount
    /\ last.pre.amount[last.acc.token_b_vault_info]
          > last.pre.amount[last.acc.token_a_vault_info]

\* liquiditySupply * depositAmount * (the other side's vault value), at
\* full width
FullNumerator ==
    BigMul(BigMul(pricing.swap_supply, pricing.tokens_deposit),
           PremiumOperand(BigMul(pricing.vault_b_supply, pricing.token_b_market_price)))

\* (the deposit side's vault value) * totalProtocolValue, at full width
FullDenominator ==
    BigMul(PremiumOperand(BigMul(pricing.vault_a_supply, pricing.token_a_market_price)),
           PremiumOperand(
               BigAdd(BigMul(BigAdd(pricing.vault_a_supply, pricing.fee_vault_a_supply),
                             pricing.token_a_market_price),
                      BigMul(BigAdd(pricing.vault_b_supply, pricing.fee_vault_b_supply),
                             pricing.token_b_market_price))))

\* C26: an amount that does not fit 64 bits is an abort, never a wrapped
\* value: a liquidity-token amount that is returned is the quotient itself
\* (rounded to the nearest unit), not the quotient reduced modulo 2^64.
C26_OverflowAborts ==
    (pricing.fn = "calculate_swap_tokens" /\ pricing.ran /\ pricing.result # None) =>
        BigLE(BigMulSmall(FullNumerator, 2),
              BigAdd(BigMulSmall(BigMul(Unwrap(pricing.result), FullDenominator), 2),
                     FullDenominator))

\* C27: the pool record is never changed after its creation: AdminDeposit,
\* Deposit, Withdraw and Swap leave it as it was, whether they succeed or
\* fail, and write nothing to an account.
C27_RecordNeverMutated ==
    last.op \in TokenOperations =>
        /\ last.at_return.data = last.pre.data
        /\ swap_state_data = last.pre.data
        /\ \A i \in 1..Len(last.steps) : last.steps[i].kind # "write"

\* a Swap on an initialized pool has moved tokens
C27_Witness ==
    /\ last.op = "Swap"
    /\ last.result = "Ok"
    /\ last.pre.data # None
    /\ last.at_return.amount # last.pre.amount
    /\ swap_state_data = last.pre.data

\* the fee vaults the record names, as the last invocation found it
FeeVaults ==
    IF last.pre.data = None THEN {}
    ELSE {StoredRecord.token_a.fee_vault, StoredRecord.token_b.fee_vault}

\* the calls of the last invocation that move tokens into or out of a fee vault
FeeVaultTransfers ==
    { i \in IssuedCalls :
        /\ last.steps[i].program = SPL_TOKEN_ID
        /\ last.steps[i].src \in FeeVaults \/ last.steps[i].dst \in FeeVaults }

\* the accounts the caller of the last invocation passed as its own wallets
CallerWallets ==
    IF last.op = "AdminDeposit"
    THEN {last.acc.token_a_admin_wallet, last.acc.token_b_admin_wallet,
          last.acc.admin_swap_wallet}
    ELSE IF last.op \in {"Deposit", "Withdraw"}
    THEN {last.acc.token_a_user_info, last.acc.token_b_user_info,
          last.acc.swap_token_user_info}
    ELSE IF last.op = "Swap"
    THEN {last.acc.source_user_info, last.acc.destination_user_info}
    ELSE {}

\* the ledger with other values in the two fee fields of the record
WithOtherFees(L) ==
    IF L.data = None THEN L
    ELSE [L EXCEPT !.data = Some([Unwrap(L.data) EXCEPT !.program_fee = @ + 7,
                                                        !.swap_fee = @ + 9])]

IsCall(s) == s.kind = "call"

\* the outcome and the external calls of a run
Externally(r) == [result |-> r.result, calls |-> SelectSeq(r.steps, IsCall)]

\* the last invocation made again on ledger L
Again(L) ==
    IF last.op = "AdminDeposit"
    THEN process_admin_deposit(L, last.acc, last.signers, last.args.a, last.args.b)
    ELSE IF last.op = "Deposit"
    THEN process_deposit(L, last.acc, last.signers, last.args.a, last.args.b)
    ELSE IF last.op = "Withdraw"
    THEN process_withdraw(L, last.acc, last.signers, last.args.a, last.args.b)
    ELSE IF last.op = "Swap"
    THEN process_swap(L, last.acc, last.signers, last.args.a)
    ELSE process_close_pool(L, last.acc, last.signers)

\* the stored program fee and swap fee have no part in what the last
\* invocation did: made on the same ledger with other fees stored it makes the
\* same external calls to the same outcome, and an Initialize that carries
\* other fees makes the same calls
FeesWithoutEffect ==
    /\ last.op \in TokenOperations \cup {"ClosePool"} =>
          Externally(Run(WithOtherFees(last.pre), Again(WithOtherFees(last.pre)),
                         1, last.signers, <<>>))
              = Externally([result |-> last.result, steps |-> last.steps])
    /\ last.op = "Initialize" =>
          \A in \in { i \in InitializeInputs :
                           i.acc = last.acc /\ i.signers = last.signers } :
              Externally(Run(WithOtherFees(last.pre),
                             process_initialize(WithOtherFees(last.pre), in.acc, in.signers,
                                 [in.payload EXCEPT !.program_fee = @ + 7,
                                                    !.swap_fee = @ + 9]),
                             1, in.signers, <<>>))
                = Externally(Run(last.pre,
                                 process_initialize(last.pre, in.acc, in.signers, in.payload),
                                 1, in.signers, <<>>))

LiquidityOperation ==
    /\ last.op \in {"AdminDeposit", "Deposit", "Withdraw"}
    /\ last.pre.data # None

\* it passed the two vaults of the pool at each other's position
VaultsExchanged ==
    /\ LiquidityOperation
    /\ last.acc.token_a_vault_info = StoredRecord.token_b.vault
    /\ last.acc.token_b_vault_info = StoredRecord.token_a.vault

\* the wallets the caller passed at the position of asset A and of asset B
PassedWalletA ==
    IF last.op = "AdminDeposit" THEN last.acc.token_a_admin_wallet
    ELSE last.acc.token_a_user_info

PassedWalletB ==
    IF last.op = "AdminDeposit" THEN last.acc.token_b_admin_wallet
    ELSE last.acc.token_b_user_info

\* it passed the caller's wallet of asset B at the position of asset A and
\* the caller's wallet of asset A at the position of asset B
WalletsExchanged ==
    /\ LiquidityOperation
    /\ TokenMint(PassedWalletA) = StoredRecord.token_b.mint
    /\ TokenMint(PassedWalletB) = StoredRecord.token_a.mint
    /\ TokenOwner(PassedWalletA) = TokenOwner(PassedWalletB)

RejectedInValidation == last.result \in ZionError /\ IssuedCalls = {}

\* C29: an AdminDeposit, Deposit or Withdraw in which two accounts at
\* different positions are exchanged, the two vaults or the caller's two
\* wallets, fails with a tagged error before any external call.
C29_ReorderingRejected ==
    VaultsExchanged \/ WalletsExchanged => RejectedInValidation

\* a Withdraw that has returned Ok
WithdrawDone == last.op = "Withdraw" /\ last.result = "Ok"

\* the liquidity tokens that `tokens` of the asset of this side cost, priced on
\* the balances the ledger held when the invocation began
CostOf(side, tokens) ==
    IF tokens = 0 THEN 0
    ELSE AmountOf(swap_tokens_for(last.pre, last.acc, side, tokens))

\* what a call asks of the token program
Asked(c) ==
    [instr |-> c.instr, src |-> c.src, dst |-> c.dst, authority |-> c.authority,
     amount |-> c.amount]

\* the calls the last invocation issued, in order
IssuedInOrder == SelectSeq(last.steps, IsCall)

\* the calls of Withdraw(a, b): a from vault A and b from vault B to the
\* caller's wallets on the authority of the pool, then the burn on the
\* authority of the caller
WithdrawCalls ==
    (IF last.args.a > 0
     THEN <<[instr |-> "transfer", src |-> StoredRecord.token_a.vault,
             dst |-> last.acc.token_a_user_info,
             authority |-> StoredRecord.swap_authority, amount |-> last.args.a]>>
     ELSE <<>>)
    \o
    (IF last.args.b > 0
     THEN <<[instr |-> "transfer", src |-> StoredRecord.token_b.vault,
             dst |-> last.acc.token_b_user_info,
             authority |-> StoredRecord.swap_authority, amount |-> last.args.b]>>
     ELSE <<>>)
    \o
    <<[instr |-> "burn", src |-> last.acc.swap_token_user_info,
       dst |-> StoredRecord.swap_mint, authority |-> last.acc.user,
       amount |-> CostOf("a", last.args.a) + CostOf("b", last.args.b)]>>

\* C30: a successful Withdraw(a, b) issues, in this order, a transfer of a
\* from vault A to the caller signed for the authority (only if a > 0), a
\* transfer of b from vault B to the caller signed for the authority (only if
\* b > 0), and a burn authorized by the caller of exactly cost(a) + cost(b)
\* liquidity tokens, the costs priced on the balances read before any transfer.
C30_WithdrawCalls ==
    WithdrawDone =>
        /\ [i \in 1..Len(IssuedInOrder) |-> Asked(IssuedInOrder[i])] = WithdrawCalls
        /\ \A i \in 1..Len(IssuedInOrder) :
              IF IssuedInOrder[i].instr = "transfer"
              THEN /\ IssuedInOrder[i].seeds # NoSeeds
                   /\ create_program_address(IssuedInOrder[i].seeds[1],
                                             IssuedInOrder[i].seeds[2])
                         = Some(IssuedInOrder[i].authority)
              ELSE IssuedInOrder[i].authority \in last.signers

\* a Withdraw has paid out of a vault and burned what the payment cost
C30_Witness ==
    /\ WithdrawDone
    /\ last.args.a + last.args.b > 0
    /\ Len(IssuedInOrder) = 2
    /\ IssuedInOrder[2].instr = "burn" /\ IssuedInOrder[2].amount > 0
    /\ last.at_return.supply[StoredRecord.swap_mint]
          = last.pre.supply[StoredRecord.swap_mint] - IssuedInOrder[2].amount

\* C31: a deposit returns floor(liquiditySupply * percent): the exact quotient
\* liquiditySupply * depositAmount * premium / totalProtocolValue rounded
\* toward zero, never up and never to the nearest unit.
C31_DepositRoundedDown ==
    SmallSwapTokensReturned =>
        BigToNat(Unwrap(pricing.result)) = PremiumNumerator \div PremiumDenominator

\* a call of calculate_swap_tokens has returned for a deposit into the side
\* whose vault holds less, at equal prices and equal fee vault balances
DepositIntoScarcerSide ==
    /\ pricing.fn = "calculate_swap_tokens"
    /\ pricing.ran
    /\ pricing.result # None
    /\ pricing.token_a_market_price = pricing.token_b_market_price
    /\ pricing.fee_vault_a_supply = pricing.fee_vault_b_supply
    /\ BigLE(pricing.vault_a_supply, pricing.vault_b_supply)
    /\ pricing.vault_a_supply # pricing.vault_b_supply

\* what calculate_swap_tokens returns for the same deposit into the other side
ResultIntoOtherSide ==
    calculate_swap_tokens(pricing.tokens_deposit, pricing.vault_b_supply,
        pricing.token_b_market_price, pricing.fee_vault_b_supply,
        pricing.vault_a_supply, pricing.token_a_market_price,
        pricing.fee_vault_a_supply, pricing.swap_supply)

\* C32: with equal prices, equal fee vault balances and the same liquidity
\* supply, a deposit into the side whose vault holds less mints at least as
\* many liquidity tokens as the same deposit into the other side.
C32_ScarcerSideRewarded ==
    DepositIntoScarcerSide =>
        /\ ResultIntoOtherSide # None
        /\ BigLE(Unwrap(ResultIntoOtherSide), Unwrap(pricing.result))

\* the positions at which the last invocation, a Swap, priced the payout
SwapPricings ==
    { i \in 1..Len(last.steps) :
        /\ last.op = "Swap"
        /\ last.steps[i].kind = "compute"
        /\ last.steps[i].instr = "calculate_tokens_to_swap" }

\* the payout for the amount of the last Swap with the price of the source
\* oracle account as the source price and the price of the destination oracle
\* account as the destination price, on the vault balances the Swap found
PayoutAtSuppliedPrices ==
    calculate_tokens_to_swap(
        BigFromNat(last.pre.amount[last.acc.source_vault_info]),
        BigFromNat(OraclePrice(last.acc.source_oracle_info)),
        BigFromNat(OraclePrice(last.acc.destination_oracle_info)),
        BigFromNat(last.pre.amount[last.acc.destination_vault_info]),
        BigFromNat(last.args.a))

\* C33: in both orientations of a Swap the source price given to the payout
\* is the price of the supplied source oracle account and the destination
\* price that of the supplied destination oracle account; the two are never
\* exchanged.
C33_SwapPricesNotExchanged ==
    \A i \in SwapPricings :
        /\ PayoutAtSuppliedPrices # None
        /\ last.steps[i].amount = BigToNat(Unwrap(PayoutAtSuppliedPrices))

\* a call of calculate_swap_tokens has returned or panicked
SwapTokensCalled == pricing.fn = "calculate_swap_tokens" /\ pricing.ran

\* the market value of the vault listed first, the side of the deposit, and
\* of the other vault
DepositSideValue ==
    get_market_value(pricing.vault_a_supply, pricing.token_a_market_price)

OtherSideValue ==
    get_market_value(pricing.vault_b_supply, pricing.token_b_market_price)

\* a value with one unit in the place of zero
OneForZero(value) == IF value = Some(<<>>) THEN PN_new(<<1>>) ELSE value

\* the total protocol value of the call
TotalProtocolValue ==
    PN_checked_add(
        PN_checked_add(
            PN_checked_add(DepositSideValue, OtherSideValue),
            get_market_value(pricing.fee_vault_a_supply, pricing.token_a_market_price)),
        get_market_value(pricing.fee_vault_b_supply, pricing.token_b_market_price))

\* what the call returns if depositValue = depositAmount * premium
ResultAtPremium(premium) ==
    ReturnU64(PN_to_imprecise(
        PN_checked_mul(
            PN_new(pricing.swap_supply),
            PN_checked_div(PN_checked_mul(PN_new(pricing.tokens_deposit), premium),
                           OneForZero(TotalProtocolValue)))))

\* C34 as stated: the premium is max(valueA, 1) / max(valueB, 1), the value
\* of the deposit side over the value of the other side.
C34_PremiumDepositOverOther ==
    SwapTokensCalled =>
        pricing.result = ResultAtPremium(PN_checked_div(OneForZero(DepositSideValue),
                                                        OneForZero(OtherSideValue)))

\* C34: in calculate_swap_tokens the premium is max(valueB, 1) / max(valueA, 1),
\* valueA the market value of the vault listed first, the side of the deposit,
\* and valueB that of the other vault, and depositValue = depositAmount * premium.
C34_PremiumOtherOverDeposit ==
    SwapTokensCalled =>
        pricing.result = ResultAtPremium(PN_checked_div(OneForZero(OtherSideValue),
                                                        OneForZero(DepositSideValue)))

\* the second deposit of the chained scenario: 10,000,000 into a side that
\* holds 100,000,000 against 110,000,000 has returned 11,000,000
C34_Witness ==
    /\ ScenarioCall(210000000)
    /\ DepositSideValue # OtherSideValue
    /\ pricing.result = Some(BigFromNat(11000000))
    /\ pricing.result # ResultAtPremium(PN_checked_div(OneForZero(DepositSideValue),
                                                       OneForZero(OtherSideValue)))

\* a Deposit that has returned Ok
DepositDone == last.op = "Deposit" /\ last.result = "Ok"

\* the calls of Deposit(a, b): a from the caller's wallet A into vault A and
\* b from the caller's wallet B into vault B on the authority of the caller,
\* then the mint on the authority of the pool
DepositCalls ==
    (IF last.args.a > 0
     THEN <<[instr |-> "transfer", src |-> last.acc.token_a_user_info,
             dst |-> StoredRecord.token_a.vault,
             authority |-> last.acc.user, amount |-> last.args.a]>>
     ELSE <<>>)
    \o
    (IF last.args.b > 0
     THEN <<[instr |-> "transfer", src |-> last.acc.token_b_user_info,
             dst |-> StoredRecord.token_b.vault,
             authority |-> last.acc.user, amount |-> last.args.b]>>
     ELSE <<>>)
    \o
    <<[instr |-> "mint_to", src |-> StoredRecord.swap_mint,
       dst |-> last.acc.swap_token_user_info,
       authority |-> StoredRecord.swap_authority,
       amount |-> CostOf("a", last.args.a) + CostOf("b", last.args.b)]>>

\* C35: a successful Deposit(a, b) issues a transfer signed by the caller for
\* each side whose amount is > 0 and none for a side whose amount is 0, and
\* then exactly one mint signed for the authority of tokensA + tokensB, a zero
\* side contributing 0 and both amounts computed from the vault balances and
\* the liquidity supply read before either transfer.
C35_DepositCalls ==
    DepositDone =>
        /\ [i \in 1..Len(IssuedInOrder) |-> Asked(IssuedInOrder[i])] = DepositCalls
        /\ \A i \in 1..Len(IssuedInOrder) :
              IF IssuedInOrder[i].instr = "transfer"
              THEN /\ IssuedInOrder[i].seeds = NoSeeds
                   /\ IssuedInOrder[i].authority \in last.signers
              ELSE /\ IssuedInOrder[i].seeds # NoSeeds
                   /\ create_program_address(IssuedInOrder[i].seeds[1],
                                             IssuedInOrder[i].seeds[2])
                         = Some(IssuedInOrder[i].authority)

\* a Deposit has moved the caller's asset of one side into its vault and
\* minted the liquidity tokens of that side
C35_Witness ==
    /\ DepositDone
    /\ last.args.a + last.args.b > 0
    /\ last.args.a = 0 \/ last.args.b = 0
    /\ Len(IssuedInOrder) = 2
    /\ IssuedInOrder[2].instr = "mint_to" /\ IssuedInOrder[2].amount > 0
    /\ last.at_return.supply[StoredRecord.swap_mint]
          = last.pre.supply[StoredRecord.swap_mint] + IssuedInOrder[2].amount

\* a call of calculate_tokens_to_swap on two vaults that hold assets has
\* returned a payout the destination vault can pay
SwapPaid ==
    /\ pricing.fn = "calculate_tokens_to_swap" /\ pricing.ran
    /\ pricing.result # None
    /\ pricing.source_supply # <<>> /\ pricing.destination_supply # <<>>
    /\ BigLE(Unwrap(pricing.result), pricing.destination_supply)

\* the payout of the swap back: all that was received is the input, the
\* vaults hold what the first swap left, the prices are the same
SwapBack ==
    calculate_tokens_to_swap(
        BigSub(pricing.destination_supply, Unwrap(pricing.result)),
        pricing.destination_market_price,
        pricing.source_market_price,
        BigAdd(pricing.source_supply, pricing.token_amount),
        Unwrap(pricing.result))

\* C36: a caller who swaps x of asset A for B and then swaps all the B
\* received back for A, at the same prices, ends with at most x of asset A.
C36_RoundTripGainsNothing ==
    (SwapPaid /\ SwapBack # None) => BigLE(Unwrap(SwapBack), pricing.token_amount)

\* a call of calculate_swap_tokens has returned the liquidity tokens a
\* Deposit mints
DepositPriced ==
    pricing.fn = "calculate_swap_tokens" /\ pricing.ran /\ pricing.result # None

\* the liquidity tokens the Withdraw of the same amount of the same asset
\* costs: the vault holds the deposit, the supply holds what was minted, the
\* prices are the same
CostOfWithdrawingBack ==
    calculate_swap_tokens(
        pricing.tokens_deposit,
        BigAdd(pricing.vault_a_supply, pricing.tokens_deposit),
        pricing.token_a_market_price, pricing.fee_vault_a_supply,
        pricing.vault_b_supply, pricing.token_b_market_price,
        pricing.fee_vault_b_supply,
        BigAdd(pricing.swap_supply, Unwrap(pricing.result)))

\* C37: if a caller deposits d of one asset and immediately withdraws d of the
\* same asset, the liquidity tokens the Withdraw burns are at least the
\* liquidity tokens the Deposit minted.
C37_NoFreeLiquidityTokens ==
    (DepositPriced /\ CostOfWithdrawingBack # None) =>
        BigLE(Unwrap(pricing.result), Unwrap(CostOfWithdrawingBack))

\* the market value of what the last invocation asked out of the two vaults
ValueTakenOut ==
    last.args.a * OraclePrice(StoredRecord.token_a.oracle)
        + last.args.b * OraclePrice(StoredRecord.token_b.oracle)

\* the liquidity tokens the last invocation burned
LiquidityBurned == IssuedInOrder[Len(IssuedInOrder)].amount

\* the liquidity supply when the invocation began
SupplyAtStart == last.pre.supply[StoredRecord.swap_mint]

\* the total protocol value when the invocation began: the market values of
\* the two vaults and of the two fee vaults of the pool
ValueAtStart ==
    (last.pre.amount[StoredRecord.token_a.vault]
         + last.pre.amount[StoredRecord.token_a.fee_vault])
        * OraclePrice(StoredRecord.token_a.oracle)
    + (last.pre.amount[StoredRecord.token_b.vault]
         + last.pre.amount[StoredRecord.token_b.fee_vault])
        * OraclePrice(StoredRecord.token_b.oracle)

\* C38: the market value a holder takes out of the vaults by a Withdraw never
\* exceeds (liquidity tokens burned / liquidity supply at the start) times the
\* total protocol value at the start.
C38_ProportionalClaim ==
    WithdrawDone =>
        ValueTakenOut * SupplyAtStart <= LiquidityBurned * ValueAtStart

\* the last invocation moved assets of the caller into a vault of the pool
AssetsMovedIn ==
    \E i \in 1..Len(IssuedInOrder) :
        /\ IssuedInOrder[i].instr = "transfer"
        /\ IssuedInOrder[i].amount > 0
        /\ IssuedInOrder[i].dst \in {StoredRecord.token_a.vault, StoredRecord.token_b.vault}
        /\ last.at_return.amount[IssuedInOrder[i].src]
              < last.pre.amount[IssuedInOrder[i].src]

\* C39: a Deposit of a positive amount never mints zero liquidity tokens
\* while moving the caller's assets into a vault, a Deposit into a pool with
\* a liquidity supply of 0 included.
C39_NoDepositForNothing ==
    (DepositDone /\ AssetsMovedIn) =>
        last.at_return.supply[StoredRecord.swap_mint] > SupplyAtStart

\* an Initialize that has returned Ok
InitializeDone == last.op = "Initialize" /\ last.result = "Ok"

\* the record the account of the pool holds when the invocation returns
PersistedRecord == Unwrap(last.at_return.data)

\* C40: after a successful Initialize the persisted record has the
\* initialized flag set, admin = the signing first account, and the liquidity
\* mint and both Token sub-records equal to the accounts supplied at their
\* positions, whatever admin, flag, mint and Token values the payload
\* carries; the bumps and the two fee fields are copied from the payload.
C40_InitializeRecord ==
    InitializeDone =>
        /\ last.at_return.data # None
        /\ PersistedRecord.is_initialized = TRUE
        /\ PersistedRecord.admin = last.acc.admin_info
        /\ last.acc.admin_info \in last.signers
        /\ PersistedRecord.swap_mint = last.acc.swap_mint_info
        /\ PersistedRecord.token_a =
              [mint |-> last.acc.token_a_mint_info, vault |-> last.acc.token_a_vault_info,
               fee_vault |-> last.acc.token_a_fee_vault_info,
               oracle |-> last.acc.token_a_oracle_info]
        /\ PersistedRecord.token_b =
              [mint |-> last.acc.token_b_mint_info, vault |-> last.acc.token_b_vault_info,
               fee_vault |-> last.acc.token_b_fee_vault_info,
               oracle |-> last.acc.token_b_oracle_info]
        /\ PersistedRecord.bump = last.args.bump
        /\ PersistedRecord.swap_authority_bump = last.args.swap_authority_bump
        /\ PersistedRecord.program_fee = last.args.program_fee
        /\ PersistedRecord.swap_fee = last.args.swap_fee

\* an Initialize has succeeded on a payload that carries another admin, the
\* flag set, another liquidity mint, the assets in the other order and fees
C40_Witness ==
    /\ InitializeDone
    /\ last.args.admin # last.acc.admin_info
    /\ last.args.is_initialized
    /\ last.args.swap_mint # last.acc.swap_mint_info
    /\ last.args.token_a.vault = last.acc.token_b_vault_info
    /\ last.args.program_fee = 7 /\ last.args.swap_fee = 9
    /\ swap_state_data = Some(PersistedRecord)
====
